---- MODULE Spec2Model ----
(***************************************************************************)
(* LinkDave node server: WebSocket sessions, per-guild players, the voice  *)
(* manager with its voice connections, audio sources and the event-handler *)
(* callbacks, modelled as one state machine.  Every goroutine of the       *)
(* server (a session's read pump running one handler at a time, the write  *)
(* pump, detached play tasks, `go onTrackEnd` callbacks, background        *)
(* closes, the voice library's close handlers and frame pulls) is a        *)
(* process of the model; a step is one critical section or one call that   *)
(* the code makes without an intervening lock release.                     *)
(***************************************************************************)
EXTENDS Integers, Sequences, FiniteSets, TLC

(***************************************************************************)
(* Scope of the model.                                                     *)
(***************************************************************************)
Sessions == {"s1", "s2"}          \* WebSocket sessions a node may accept
Guilds   == {"g1"}                \* guild ids named in commands
Channels == {"c1"}                \* voice channel ids named in VoiceUpdate
NoBot    == 0                     \* zero snowflake.ID of an unidentified client
Bots     == {1, 2}                \* bot ids named in Identify
BotIds   == Bots \cup {NoBot}

MaxFrames     == 1                \* frames an audio stream holds before EOF
MaxDropped    == 2                \* the drop warnings that are counted

SendChCap     == 256              \* make(chan any, 256)
DefaultVolume == 100              \* Player.volume at creation
FrameMs       == 20               \* position advance per Opus frame

\* URLs named in Play: the scheme decides DefaultFactory.CreateFromURL, the
\* HTTP status decides NewMP3Source.
UrlOk  == [scheme |-> "http", status |-> 200, mp3 |-> TRUE]
Url404 == [scheme |-> "https", status |-> 404, mp3 |-> FALSE]
NoUrl  == [scheme |-> "", status |-> 0, mp3 |-> FALSE]
UrlFtp == [scheme |-> "ftp", status |-> 0, mp3 |-> FALSE]
UrlNotMp3 == [scheme |-> "http", status |-> 200, mp3 |-> FALSE]

VARIABLES
  clients,            \* Server.clients: the registered sessions
  clientsByClientId,  \* Server.clientsByClientId: bot id -> slice of sessions
  draining,           \* Server.draining
  main,               \* the main goroutine: where it is, and how its wait ended
  stats,              \* the StatsData a tick of the stats ticker holds, or NoStats
  client,             \* Client struct of every session
  sendCh,             \* Client.sendCh of every session
  dropped,            \* "client send buffer full" warnings logged per session
  player,             \* heap of Player structs
  handler,            \* the handler each session's read pump is running
  connections,        \* Manager.connections: (bot, guild) -> Connection
  mutex,              \* Manager.mutex
  conn,               \* heap of voice.Connection structs
  voiceConn,          \* heap of the voice library's sockets (voice.Conn)
  source,             \* heap of MP3Source structs
  playTasks,          \* detached goroutines started by handlePlay
  callbacks,          \* EventHandler callback executions, oldest first
  closers,            \* goroutines started by Manager.Disconnect
  crashed,            \* the process died with a fatal runtime error
  nCmds,              \* commands read so far (bounds the exploration)
  nodes,              \* controller: Node objects of LinkDaveClient.#nodes
  players,            \* controller: LinkDaveClient.#players, guild -> Player
  playerNodes,        \* controller: LinkDaveClient.#playerNodes, guild -> node
  commands,           \* controller: commands the last call wrote to node sockets, in order
  emitted,            \* controller: events the manager emitted in the last call, in order
  lastMsg,            \* controller: the node message or gateway packet the last step handled
  remote,             \* what each node holds for the controller's session
  calls               \* calls of ProvideOpusFrame and Close on a source, step by step

vars == <<clients, clientsByClientId, draining, main, stats, client, sendCh, dropped, player,
          handler, connections, mutex, conn, voiceConn, source, playTasks,
          callbacks, closers, crashed, nCmds, nodes, players, playerNodes,
          commands, emitted, lastMsg, remote, calls>>

controllerVars == <<nodes, players, playerNodes, commands, emitted, lastMsg, remote>>
nodeVars    == <<draining, main, stats>>
serverVars  == <<clients, clientsByClientId, nodeVars>>
voiceVars   == <<connections, mutex, conn, voiceConn, source>>
taskVars    == <<playTasks, callbacks, closers>>

\* no tick of the stats ticker is between GetStats and its sends
NoStats == [players |-> -1, playing |-> -1, draining |-> FALSE]

\* the main goroutine before a signal or a listener error
Serving == [pc |-> "serving", timedOut |-> FALSE]

(***************************************************************************)
(* Scope of the controller (the TypeScript client library): the nodes of   *)
(* LinkDaveClient.#nodes in insertion order, and the values the Discord    *)
(* gateway and the nodes name.  JavaScript runs one handler at a time, so  *)
(* every controller step is a whole call.                                  *)
(***************************************************************************)
NodeNames  == <<"n1", "n2">>
NodeSet    == {NodeNames[i] : i \in DOMAIN NodeNames}
NoNode     == ""                  \* undefined / null where a Node is expected
GuildIds   == {"g1", "g2"}
ChannelIds == {"c1", "c2"}
Tokens     == {"t1", "t2"}
Null       == ""                  \* null, undefined and "" are all falsy

\* VoiceServerEvent, VoiceState and PendingVoiceState; a null buffer and an
\* empty one are read alike (?. and ??=)
NoEvent   == [token |-> Null, guild_id |-> Null, endpoint |-> Null]
NoVoice   == [channelId |-> Null, sessionId |-> Null, event |-> NoEvent]
NoPending == [channelId |-> Null, sessionId |-> Null, serverEvent |-> NoEvent]

\* no entry of #players for a guild
NoPlayer == [node |-> NoNode, voiceChannelId |-> Null, state |-> "", position |-> 0,
             volume |-> 0, voiceState |-> NoVoice, pendingVoice |-> NoPending,
             migrationTarget |-> NoNode, migrationResolve |-> FALSE]

\* no message handled by the step
NoMsg == [op |-> "", node |-> NoNode, guild_id |-> Null, state |-> "", url |-> Null,
          position |-> 0, volume |-> 0, players |-> 0, draining |-> FALSE]

\* new Node(options): no socket, no timer.  open, connecting: the readyState of
\* #ws; closing: sockets the node has closed or replaced whose close event is
\* still to come; reconnectTimeout: the delay of the timer #reconnectTimeout
\* refers to, 0 for null; timers: the reconnect timers that are set and have
\* neither fired nor been cleared; clientId: #clientId is set; closes: the closes counted since the last open
\* or disconnect() of a node with autoReconnect (an observer, not a field of
\* Node)
NewNode(autoReconnect, maxReconnectAttempts) ==
  [state |-> "disconnected", open |-> FALSE, playerCount |-> 0,
   connecting |-> FALSE, closing |-> 0, clientId |-> FALSE,
   autoReconnect |-> autoReconnect, maxReconnectAttempts |-> maxReconnectAttempts,
   reconnectAttempts |-> 0, reconnectTimeout |-> 0, timers |-> 0, closes |-> 0]

\* new Map() three times, nothing sent or emitted
ControllerMaps ==
  /\ players = [g \in GuildIds |-> NoPlayer]
  /\ playerNodes = [g \in GuildIds |-> NoNode]
  /\ commands = <<>>
  /\ emitted = <<>>
  /\ lastMsg = NoMsg
  /\ remote = [n \in NodeSet |-> [players |-> {}, migrating |-> [g \in GuildIds |-> 0]]]

\* addNode for every node, with autoReconnect: false
ControllerInit ==
  /\ nodes = [n \in NodeSet |-> NewNode(FALSE, 0)]
  /\ ControllerMaps

(***************************************************************************)
(* Helpers.                                                                *)
(***************************************************************************)
Min(a, b) == IF a < b THEN a ELSE b
Max(a, b) == IF a > b THEN a ELSE b
Range(f) == {f[i] : i \in DOMAIN f}

\* protocol.Message, with every payload field the replies use
Msg(op, g, state, position, volume, url, reason) ==
  [op |-> op, guild |-> g, state |-> state, position |-> position,
   volume |-> volume, url |-> url, reason |-> reason]

MsgReady           == Msg("Ready", "", "", 0, 0, NoUrl, "")
MsgPong            == Msg("Pong", "", "", 0, 0, NoUrl, "")
MsgPlayerUpdate(g, st, pos, vol) == Msg("PlayerUpdate", g, st, pos, vol, NoUrl, "")
MsgTrackStart(g, url)       == Msg("TrackStart", g, "", 0, 0, url, "")
MsgTrackEnd(g, url, reason) == Msg("TrackEnd", g, "", 0, 0, url, reason)
MsgTrackError(g, url, err)  == Msg("TrackError", g, "", 0, 0, url, err)
MsgVoiceConnect(g, ch)      == Msg("VoiceConnect", g, ch, 0, 0, NoUrl, "")
MsgVoiceDisconnect(g, reason) == Msg("VoiceDisconnect", g, "", 0, 0, NoUrl, reason)
MsgMigrateReady(g, url, pos, vol, st) == Msg("MigrateReady", g, st, pos, vol, url, "")
MsgStats(d)        == Msg("Stats", "", IF d.draining THEN "draining" ELSE "", 0,
                          d.players, NoUrl, "")
MsgNodeDraining(reason, deadlineMs) ==
  Msg("NodeDraining", "", "", deadlineMs, 0, NoUrl, reason)

(***************************************************************************)
(* Client.send: a non-blocking enqueue on the buffered channel.            *)
(***************************************************************************)
sendUnbounded(ch, msg) == Append(ch, msg)

send(ch, msg) == IF Len(ch) < SendChCap THEN Append(ch, msg) ELSE ch

\* the messages of `msgs`, sent in order
RECURSIVE sendAll(_, _)
sendAll(ch, msgs) ==
  IF msgs = <<>> THEN ch ELSE sendAll(send(ch, Head(msgs)), Tail(msgs))

\* how many of `msgs` the channel refuses
RECURSIVE nDropped(_, _)
nDropped(ch, msgs) ==
  IF msgs = <<>> THEN 0
  ELSE (IF send(ch, Head(msgs)) = ch THEN 1 ELSE 0)
       + nDropped(send(ch, Head(msgs)), Tail(msgs))

\* session s sends msgs: the new sendCh and dropped
SendTo(s, msgs) ==
  /\ sendCh' = [sendCh EXCEPT ![s] = sendAll(@, msgs)]
  /\ dropped' = [dropped EXCEPT ![s] = Min(MaxDropped, @ + nDropped(sendCh[s], msgs))]

(***************************************************************************)
(* Player: pure data behind a mutex.                                       *)
(***************************************************************************)
NewPlayer == [state |-> "idle", currentURL |-> NoUrl, position |-> 0,
              volume |-> DefaultVolume, channelID |-> ""]

SetVolume(p, vol)    == [p EXCEPT !.volume = vol]
SetState(p, st)      == [p EXCEPT !.state = st]
SetPosition(p, pos)  == [p EXCEPT !.position = pos]
SetChannelID(p, ch)  == [p EXCEPT !.channelID = ch]
SetPlayingState(p, url, pos) ==
  [p EXCEPT !.state = "playing", !.currentURL = url, !.position = pos]
SetIdleState(p)      == [p EXCEPT !.state = "idle", !.currentURL = NoUrl]
SetPausedState(p, pos) == [p EXCEPT !.state = "paused", !.position = pos]
GetPlayerUpdateData(p) == [state |-> p.state, position |-> p.position, volume |-> p.volume]

(***************************************************************************)
(* Client: the player map of a session.  players[g] is an index into the   *)
(* player heap, 0 for a missing key.                                       *)
(***************************************************************************)
NewClient == [accepted |-> TRUE, closed |-> FALSE, clientId |-> NoBot,
              identified |-> FALSE, players |-> [g \in Guilds |-> 0]]
NoClient  == [accepted |-> FALSE, closed |-> FALSE, clientId |-> NoBot,
              identified |-> FALSE, players |-> [g \in Guilds |-> 0]]

getPlayer(s, g) == client[s].players[g]

\* the frame of a handler: its position and the locals it holds
Idle == [pc |-> "idle", g |-> "", ch |-> "", bot |-> NoBot, pid |-> 0,
         cid |-> 0, isNew |-> FALSE, sock |-> 0, err |-> FALSE]

\* the read pump of s is between two messages
ReadyToRead(s) ==
  /\ ~crashed
  /\ client[s].accepted
  /\ ~client[s].closed
  /\ handler[s].pc = "idle"

(***************************************************************************)
(* Go slices.  A slice is a window of length `len` on a backing array      *)
(* `arr` (whose length is the capacity); NoSession is a nil pointer.       *)
(* A snapshot `x := m[k]` copies the window, not the array: it keeps       *)
(* reading the array that later in-place writes change.                    *)
(***************************************************************************)
NoSession == ""
NilSlice  == [arr |-> <<>>, len |-> 0]
Cap(sl)   == Len(sl.arr)
SliceElems(sl) == SubSeq(sl.arr, 1, sl.len)

\* runtime.growslice for one appended pointer: 0 -> 1, else double
GrowCap(oldcap) == IF oldcap = 0 THEN 1 ELSE 2 * oldcap

\* append(sl, x) writes in place while the capacity lasts
AppendInPlace(sl) == sl.len < Cap(sl)
SliceAppend(sl, x) ==
  IF AppendInPlace(sl)
  THEN [arr |-> [sl.arr EXCEPT ![sl.len + 1] = x], len |-> sl.len + 1]
  ELSE [arr |-> [j \in 1..GrowCap(Cap(sl)) |->
                   IF j <= sl.len THEN sl.arr[j]
                   ELSE IF j = sl.len + 1 THEN x ELSE NoSession],
        len |-> sl.len + 1]

\* append(sl[:i], sl[i+1:]...) with the 1-based index i: the tail moves down
\* inside the same backing array, the last slot keeps its old value
SliceRemoveAt(sl, i) ==
  [arr |-> [j \in 1..Cap(sl) |->
              IF j >= i /\ j < sl.len THEN sl.arr[j + 1] ELSE sl.arr[j]],
   len |-> sl.len - 1]

\* the first index holding s, 0 when there is none
IndexOf(sl, s) ==
  IF \E i \in 1..sl.len : sl.arr[i] = s
  THEN CHOOSE i \in 1..sl.len :
         /\ sl.arr[i] = s
         /\ \A j \in 1..(i - 1) : sl.arr[j] # s
  ELSE 0

(***************************************************************************)
(* EventHandler callback executions.  A callback holds the snapshot it     *)
(* took of clientsByClientId[bot]; while `shared` the snapshot's array is  *)
(* the one the map still uses.                                             *)
(***************************************************************************)
\* the callbacks stop sharing the array of bot's slice, whose content is arr
Unshare(cbs, bot, arr) ==
  [i \in DOMAIN cbs |->
     IF cbs[i].bot = bot /\ cbs[i].shared
     THEN [cbs[i] EXCEPT !.shared = FALSE, !.snap = [arr |-> arr, len |-> @.len]]
     ELSE cbs[i]]

\* the element a callback reads at index k of its snapshot
SnapElem(cb, k) ==
  IF cb.shared THEN clientsByClientId[cb.bot].arr[k] ELSE cb.snap.arr[k]

\* clients := s.clientsByClientId[clientId], taken under clientsMu.RLock
Snapshot(bot) == [arr |-> <<>>, len |-> clientsByClientId[bot].len]

(***************************************************************************)
(* Server registry.                                                        *)
(***************************************************************************)
registerClient(s) ==
  LET bot == client'[s].clientId
      old == clientsByClientId[bot]
  IN /\ clients' = clients \cup {s}
     /\ clientsByClientId' = [clientsByClientId EXCEPT ![bot] = SliceAppend(old, s)]
     /\ callbacks' = IF AppendInPlace(old) THEN callbacks
                     ELSE Unshare(callbacks, bot, old.arr)

unregisterClient(s) ==
  LET bot == client[s].clientId
      old == clientsByClientId[bot]
      i   == IndexOf(old, s)
      cut == IF i = 0 THEN old ELSE SliceRemoveAt(old, i)
  IN /\ clients' = clients \ {s}
     /\ IF cut.len = 0
        THEN /\ clientsByClientId' = [clientsByClientId EXCEPT ![bot] = NilSlice]
             /\ callbacks' = Unshare(callbacks, bot, cut.arr)
        ELSE /\ clientsByClientId' = [clientsByClientId EXCEPT ![bot] = cut]
             /\ callbacks' = callbacks

(***************************************************************************)
(* Session lifecycle.                                                      *)
(***************************************************************************)
\* Server.HandleWebSocket: upgrade, NewClient, start both pumps
HandleWebSocket(s) ==
  /\ ~crashed
  /\ ~client[s].accepted
  /\ client' = [client EXCEPT ![s] = NewClient]
  /\ UNCHANGED <<calls, controllerVars, serverVars, sendCh, dropped, player, handler, voiceVars,
                 taskVars, crashed, nCmds>>

\* Client.close, run once by whichever pump returns first
close(s) ==
  /\ ~crashed
  /\ client[s].accepted
  /\ ~client[s].closed
  /\ client' = [client EXCEPT ![s].closed = TRUE]
  /\ unregisterClient(s)
  /\ UNCHANGED <<calls, controllerVars, nodeVars, sendCh, dropped, player, handler, voiceVars,
                 playTasks, closers, crashed, nCmds>>

\* Client.writePump: one message leaves the channel for the socket
writePump(s) ==
  /\ ~crashed
  /\ client[s].accepted
  /\ ~client[s].closed
  /\ sendCh[s] # <<>>
  /\ sendCh' = [sendCh EXCEPT ![s] = Tail(@)]
  /\ UNCHANGED <<calls, controllerVars, serverVars, client, dropped, player, handler, voiceVars,
                 taskVars, crashed, nCmds>>

(***************************************************************************)
(* Handlers that finish in one step.                                       *)
(***************************************************************************)
handleIdentify(s, bot) ==
  /\ ReadyToRead(s)
  /\ client' = [client EXCEPT ![s].clientId = bot, ![s].identified = TRUE]
  /\ registerClient(s)
  /\ SendTo(s, <<MsgReady>>)
  /\ nCmds' = nCmds + 1
  /\ UNCHANGED <<calls, controllerVars, nodeVars, player, handler, voiceVars, playTasks, closers, crashed>>

handlePing(s) ==
  /\ ReadyToRead(s)
  /\ SendTo(s, <<MsgPong>>)
  /\ nCmds' = nCmds + 1
  /\ UNCHANGED <<calls, controllerVars, serverVars, client, player, handler, voiceVars, taskVars, crashed>>

\* Server.GetStats: the players of the registered sessions, those that are
\* playing, and the draining flag
PlayerCount ==
  Cardinality({<<s, g>> \in clients \X Guilds : getPlayer(s, g) # 0})
GetStats ==
  [players  |-> PlayerCount,
   playing  |-> Cardinality({<<s, g>> \in clients \X Guilds :
                               /\ getPlayer(s, g) # 0
                               /\ player[getPlayer(s, g)].state = "playing"}),
   draining |-> draining]

\* Server.sendStats, on the 5 s ticker: first stats := s.GetStats()
sendStats_GetStats ==
  /\ ~crashed
  /\ stats = NoStats
  /\ stats' = GetStats
  /\ UNCHANGED <<calls, controllerVars, clients, clientsByClientId, draining, main, client, sendCh, dropped,
                 player, handler, voiceVars, taskVars, crashed, nCmds>>

\* Server.sendStats: then the same Stats message to every registered session
sendStats ==
  /\ ~crashed
  /\ stats # NoStats
  /\ sendCh' = [s \in Sessions |->
                  IF s \in clients THEN send(sendCh[s], MsgStats(stats)) ELSE sendCh[s]]
  /\ dropped' = [s \in Sessions |->
                  IF s \in clients
                  THEN Min(MaxDropped, dropped[s] + nDropped(sendCh[s], <<MsgStats(stats)>>))
                  ELSE dropped[s]]
  /\ stats' = NoStats
  /\ UNCHANGED <<calls, controllerVars, clients, clientsByClientId, draining, main, client, player, handler,
                 voiceVars, taskVars, crashed, nCmds>>

(***************************************************************************)
(* Audio sources (MP3Source).                                              *)
(***************************************************************************)
\* the mutant of CreateFromURL: the error of mp3.NewDecoder is not looked at
CreateFromURLAnyData(url) ==
  /\ url.scheme \in {"http", "https"}
  /\ url.status \in {200, 206}

\* DefaultFactory.CreateFromURL and NewMP3Source: whether a source results
CreateFromURL(url) ==
  /\ url.scheme \in {"http", "https"}
  /\ url.status \in {200, 206}
  /\ url.mp3

\* a fresh MP3Source; `conn` records the Connection it is installed into
\* mu: the call that holds MP3Source.mu, or 0; bodyCloses: how often body.Close
\* has been called; closeReturned: some Close has returned
NewMP3Source(url) == [url |-> url, closed |-> FALSE, position |-> 0,
                      frames |-> MaxFrames, conn |-> 0,
                      mu |-> 0, bodyCloses |-> 0, closeReturned |-> FALSE]

\* MP3Source.SeekTo always fails for an HTTP stream
SeekTo(src, positionMs) == FALSE

(***************************************************************************)
(* voice.Connection and the sockets of the voice library.                  *)
(***************************************************************************)
NewConnection(bot, g) == [bot |-> bot, g |-> g, channelID |-> "", closed |-> FALSE,
                          voiceConn |-> 0, source |-> 0, paused |-> FALSE,
                          setupMu |-> FALSE]

\* voice.NewConn: a socket of Connection c, not yet open; `provider` is the
\* source of the trackWrapper set as its frame provider
NewConn(c) == [conn |-> c, state |-> "opening", provider |-> 0]

NewCallback(kind, c, src, reason) ==
  [kind |-> kind, bot |-> conn[c].bot, g |-> conn[c].g, cid |-> c, src |-> src,
   reason |-> reason, pc |-> "start", snap |-> NilSlice, shared |-> FALSE,
   idx |-> 0, delivered |-> <<>>]

\* voiceConn.SetOpusFrameProvider on the current socket of c
SetOpusFrameProvider(vc, c, src) ==
  IF conn[c].voiceConn = 0 THEN vc
  ELSE [vc EXCEPT ![conn[c].voiceConn].provider = src]

\* Connection.Play keeping the previous source open
ConnPlayNoClose(c, sid) ==
  LET old == conn[c].source
  IN /\ conn' = [conn EXCEPT ![c].source = sid, ![c].paused = FALSE]
     /\ source' = [source EXCEPT ![sid].conn = c]
     /\ callbacks' = IF old # 0
                     THEN Append(callbacks, NewCallback("trackEnd", c, old, "replaced"))
                     ELSE callbacks
     /\ voiceConn' = SetOpusFrameProvider(voiceConn, c, sid)

\* Connection.Play
ConnPlay(c, sid) ==
  LET old == conn[c].source
  IN /\ conn' = [conn EXCEPT ![c].source = sid, ![c].paused = FALSE]
     /\ source' = [i \in DOMAIN source |->
                     IF i = old THEN [source[i] EXCEPT !.closed = TRUE]
                     ELSE IF i = sid THEN [source[i] EXCEPT !.conn = c]
                     ELSE source[i]]
     /\ callbacks' = IF old # 0
                     THEN Append(callbacks, NewCallback("trackEnd", c, old, "replaced"))
                     ELSE callbacks
     /\ voiceConn' = SetOpusFrameProvider(voiceConn, c, sid)

\* Connection.Pause
ConnPause(c) ==
  /\ conn' = [conn EXCEPT ![c].paused = TRUE]
  /\ voiceConn' = SetOpusFrameProvider(voiceConn, c, 0)
  /\ UNCHANGED <<source, callbacks>>

\* Connection.Resume
ConnResume(c) ==
  /\ conn' = [conn EXCEPT ![c].paused = FALSE]
  /\ voiceConn' = IF conn[c].source # 0
                  THEN SetOpusFrameProvider(voiceConn, c, conn[c].source)
                  ELSE voiceConn
  /\ UNCHANGED <<source, callbacks>>

\* what Connection.Stop does to the source heap and the callbacks
StopSource(c) ==
  IF conn[c].source # 0 THEN [source EXCEPT ![conn[c].source].closed = TRUE] ELSE source
StopCallbacks(c) ==
  IF conn[c].source # 0
  THEN Append(callbacks, NewCallback("trackEnd", c, conn[c].source, "stopped"))
  ELSE callbacks

\* Connection.Stop
ConnStop(c) ==
  /\ conn' = [conn EXCEPT ![c].source = 0]
  /\ source' = StopSource(c)
  /\ callbacks' = StopCallbacks(c)
  /\ voiceConn' = SetOpusFrameProvider(voiceConn, c, 0)

\* Connection.Close: once only; Stop, then Close(ctx) on the current socket
ConnClose(c) ==
  IF conn[c].closed
  THEN UNCHANGED <<conn, source, callbacks, voiceConn>>
  ELSE /\ conn' = [conn EXCEPT ![c].source = 0, ![c].closed = TRUE]
       /\ source' = StopSource(c)
       /\ callbacks' = StopCallbacks(c)
       /\ voiceConn' = [k \in DOMAIN voiceConn |->
                          IF k = conn[c].voiceConn
                          THEN [voiceConn[k] EXCEPT
                                  !.provider = 0,
                                  !.state = IF @ = "open" THEN "closing" ELSE @]
                          ELSE voiceConn[k]]

\* Connection.Position
ConnPosition(c) == IF conn[c].source = 0 THEN 0 ELSE source[conn[c].source].position

(***************************************************************************)
(* voice.Manager.                                                          *)
(***************************************************************************)
connectionKey(bot, g) == <<bot, g>>
Keys == BotIds \X Guilds

getConnection(bot, g) == connections[connectionKey(bot, g)]

\* Manager.Position
Position(bot, g) ==
  IF getConnection(bot, g) = 0 THEN 0 ELSE ConnPosition(getConnection(bot, g))

\* a goroutine that needs Manager.mutex waits for ever once it is stuck
MutexFree == mutex = "free"

(***************************************************************************)
(* Client.getOrCreatePlayer / removePlayer.                                *)
(***************************************************************************)
\* the heap index getOrCreatePlayer returns, and the heap and map after it
PidOf(s, g) == IF client[s].players[g] # 0 THEN client[s].players[g] ELSE Len(player) + 1
PlayersWith(s, g) == IF client[s].players[g] # 0 THEN player ELSE Append(player, NewPlayer)
ClientWith(s, g) == [client EXCEPT ![s].players[g] = PidOf(s, g)]

removePlayer(cl, s, g) == [cl EXCEPT ![s].players[g] = 0]

\* the handler of s returns; or, when it needs the stuck mutex, never does
Return(s) == handler' = [handler EXCEPT ![s] = Idle]
Block(s)  == handler' = [handler EXCEPT ![s] = [Idle EXCEPT !.pc = "blocked"]]

(***************************************************************************)
(* Play: the handler starts a detached task.                               *)
(***************************************************************************)
NewPlayTask(s, g, url, startTime) ==
  [s |-> s, g |-> g, url |-> url, startTime |-> startTime, pid |-> PidOf(s, g),
   pc |-> "start", cid |-> 0, src |-> 0,
   upd |-> [state |-> "", position |-> 0, volume |-> 0]]

RemoveAt(seq, i) == SubSeq(seq, 1, i - 1) \o SubSeq(seq, i + 1, Len(seq))

handlePlay(s, g, url, startTime, volume) ==
  /\ ReadyToRead(s)
  /\ client' = ClientWith(s, g)
  /\ player' = IF volume > 0
               THEN [PlayersWith(s, g) EXCEPT ![PidOf(s, g)] = SetVolume(@, volume)]
               ELSE PlayersWith(s, g)
  /\ playTasks' = Append(playTasks, NewPlayTask(s, g, url, startTime))
  /\ nCmds' = nCmds + 1
  /\ UNCHANGED <<calls, controllerVars, serverVars, sendCh, dropped, handler, voiceVars, callbacks,
                 closers, crashed>>

\* Manager.Play up to the source: getConnection, then CreateFromURL
playTask_create(i) ==
  LET t == playTasks[i]
      c == getConnection(client[t.s].clientId, t.g)
  IN /\ ~crashed
     /\ t.pc = "start"
     /\ MutexFree
     /\ IF c = 0 \/ ~CreateFromURL(t.url)
        THEN /\ SendTo(t.s, <<MsgTrackError(t.g, t.url, "error")>>)
             /\ playTasks' = RemoveAt(playTasks, i)
             /\ UNCHANGED source
        ELSE /\ source' = Append(source, NewMP3Source(t.url))
             /\ playTasks' = [playTasks EXCEPT ![i].pc = "play", ![i].cid = c,
                                               ![i].src = Len(source) + 1]
             /\ UNCHANGED <<sendCh, dropped>>
     /\ UNCHANGED <<calls, controllerVars, serverVars, client, player, handler, connections, mutex, conn,
                    voiceConn, callbacks, closers, crashed, nCmds>>

\* Manager.Play: conn.Play(ctx, source)
playTask_play(i) ==
  LET t == playTasks[i]
  IN /\ ~crashed
     /\ t.pc = "play"
     /\ ConnPlay(t.cid, t.src)
     /\ playTasks' = [playTasks EXCEPT ![i].pc = "playing"]
     /\ UNCHANGED <<calls, controllerVars, serverVars, client, sendCh, dropped, player, handler,
                    connections, mutex, closers, crashed, nCmds>>

\* player.SetPlayingState and GetPlayerUpdateData
playTask_setPlaying(i) ==
  LET t == playTasks[i]
      p == SetPlayingState(player[t.pid], t.url, t.startTime)
  IN /\ ~crashed
     /\ t.pc = "playing"
     /\ player' = [player EXCEPT ![t.pid] = p]
     /\ playTasks' = [playTasks EXCEPT ![i].pc = "reply", ![i].upd = GetPlayerUpdateData(p)]
     /\ UNCHANGED <<calls, controllerVars, serverVars, client, sendCh, dropped, handler, voiceVars,
                    callbacks, closers, crashed, nCmds>>

\* the two sends that end the task
playTask_reply(i) ==
  LET t == playTasks[i]
  IN /\ ~crashed
     /\ t.pc = "reply"
     /\ SendTo(t.s, <<MsgTrackStart(t.g, source[t.src].url),
                      MsgPlayerUpdate(t.g, t.upd.state, t.upd.position, t.upd.volume)>>)
     /\ playTasks' = RemoveAt(playTasks, i)
     /\ UNCHANGED <<calls, controllerVars, serverVars, client, player, handler, voiceVars, callbacks,
                    closers, crashed, nCmds>>

(***************************************************************************)
(* Pause, Resume, Stop: the manager call, then the player and the reply.   *)
(***************************************************************************)
\* the part the three handlers share: getPlayer, then the manager call `op`
ManagerCall(s, g, pc, Op(_)) ==
  LET c == getConnection(client[s].clientId, g)
  IN /\ ReadyToRead(s)
     /\ nCmds' = nCmds + 1
     /\ IF getPlayer(s, g) = 0
        THEN UNCHANGED <<handler, conn, voiceConn, source, callbacks>>
        ELSE IF ~MutexFree
        THEN Block(s) /\ UNCHANGED <<conn, voiceConn, source, callbacks>>
        ELSE IF c = 0
        THEN UNCHANGED <<handler, conn, voiceConn, source, callbacks>>
        ELSE /\ Op(c)
             /\ handler' = [handler EXCEPT ![s] =
                  [Idle EXCEPT !.pc = pc, !.g = g, !.pid = getPlayer(s, g),
                               !.bot = client[s].clientId]]
     /\ UNCHANGED <<calls, controllerVars, serverVars, client, sendCh, dropped, player, connections,
                    mutex, playTasks, closers, crashed>>

handlePause(s, g)  == ManagerCall(s, g, "pause", ConnPause)
handleResume(s, g) == ManagerCall(s, g, "resume", ConnResume)
handleStop(s, g)   == ManagerCall(s, g, "stop", ConnStop)

\* the part the replies share: the player becomes p and is reported
Reply(s, p, position) ==
  /\ player' = [player EXCEPT ![handler[s].pid] = p]
  /\ SendTo(s, <<MsgPlayerUpdate(handler[s].g, p.state, position, p.volume)>>)
  /\ Return(s)
  /\ UNCHANGED <<calls, controllerVars, serverVars, client, voiceVars, taskVars, crashed, nCmds>>

\* a reply that reads Manager.Position waits for the manager's mutex
ReplyAt(s, pc) ==
  /\ ~crashed
  /\ handler[s].pc = pc
  /\ MutexFree

handlePause_reply(s) ==
  /\ ReplyAt(s, "pause")
  /\ LET p == SetPausedState(player[handler[s].pid], Position(handler[s].bot, handler[s].g))
     IN Reply(s, p, p.position)

handleResume_reply(s) ==
  /\ ReplyAt(s, "resume")
  /\ LET p == SetPosition(SetState(player[handler[s].pid], "playing"),
                          Position(handler[s].bot, handler[s].g))
     IN Reply(s, p, p.position)

handleStop_reply(s) ==
  /\ ~crashed
  /\ handler[s].pc = "stop"
  /\ Reply(s, SetIdleState(player[handler[s].pid]), 0)

\* handleSeek: Manager.Seek fails without a connection or a source, and
\* MP3Source.SeekTo fails otherwise, so the success path below never runs
handleSeek(s, g, position) ==
  LET c == getConnection(client[s].clientId, g)
      pid == getPlayer(s, g)
  IN /\ ReadyToRead(s)
     /\ nCmds' = nCmds + 1
     /\ IF pid = 0
        THEN UNCHANGED <<handler, player, sendCh, dropped>>
        ELSE IF ~MutexFree
        THEN Block(s) /\ UNCHANGED <<player, sendCh, dropped>>
        ELSE IF c = 0 \/ conn[c].source = 0 \/ ~SeekTo(conn[c].source, position)
        THEN UNCHANGED <<handler, player, sendCh, dropped>>
        ELSE LET p == SetPosition(player[pid], Position(client[s].clientId, g))
             IN /\ player' = [player EXCEPT ![pid] = p]
                /\ SendTo(s, <<MsgPlayerUpdate(g, p.state, p.position, p.volume)>>)
                /\ UNCHANGED handler
     /\ UNCHANGED <<calls, controllerVars, serverVars, client, voiceVars, taskVars, crashed>>

\* handleVolume: SetVolume, then the reply with Manager.Position
handleVolume(s, g, volume) ==
  LET pid == getPlayer(s, g)
  IN /\ ReadyToRead(s)
     /\ nCmds' = nCmds + 1
     /\ IF pid = 0
        THEN UNCHANGED <<handler, player, sendCh, dropped>>
        ELSE LET p == SetVolume(player[pid], volume)
             IN /\ player' = [player EXCEPT ![pid] = p]
                /\ IF MutexFree
                   THEN /\ SendTo(s, <<MsgPlayerUpdate(g, p.state,
                                         Position(client[s].clientId, g), p.volume)>>)
                        /\ UNCHANGED handler
                   ELSE Block(s) /\ UNCHANGED <<sendCh, dropped>>
     /\ UNCHANGED <<calls, controllerVars, serverVars, client, voiceVars, taskVars, crashed>>

(***************************************************************************)
(* VoiceUpdate: Manager.Connect, step by step.                             *)
(***************************************************************************)
\* getOrCreatePlayer, then the first critical section of Manager.Connect:
\* an existing entry is reconfigured, a missing one is built by NewConnection
handleVoiceUpdate(s, g, ch) ==
  LET bot == client[s].clientId
      existing == getConnection(bot, g)
      frame == [Idle EXCEPT !.g = g, !.ch = ch, !.bot = bot, !.pid = PidOf(s, g)]
  IN /\ ReadyToRead(s)
     /\ nCmds' = nCmds + 1
     /\ client' = ClientWith(s, g)
     /\ player' = PlayersWith(s, g)
     /\ IF ~MutexFree
        THEN Block(s) /\ UNCHANGED conn
        ELSE IF existing # 0
        THEN /\ handler' = [handler EXCEPT ![s] =
                  [frame EXCEPT !.pc = "setup", !.cid = existing]]
             /\ UNCHANGED conn
        ELSE /\ conn' = Append(conn, NewConnection(bot, g))
             /\ handler' = [handler EXCEPT ![s] =
                  [frame EXCEPT !.pc = "setup", !.cid = Len(conn) + 1, !.isNew = TRUE]]
     /\ UNCHANGED <<calls, controllerVars, serverVars, sendCh, dropped, connections, mutex, voiceConn,
                    source, taskVars, crashed>>

\* setupVoiceConn up to Open: setupMu, the closed check, voice.NewConn
setupVoiceConn(s) ==
  LET f == handler[s]
  IN /\ ~crashed
     /\ f.pc = "setup"
     /\ ~conn[f.cid].setupMu
     /\ IF conn[f.cid].closed
        THEN /\ handler' = [handler EXCEPT ![s].pc = "reply", ![s].err = TRUE]
             /\ UNCHANGED <<conn, voiceConn>>
        ELSE /\ conn' = [conn EXCEPT ![f.cid].setupMu = TRUE]
             /\ voiceConn' = Append(voiceConn, NewConn(f.cid))
             /\ handler' = [handler EXCEPT ![s].pc = "open", ![s].sock = Len(voiceConn) + 1]
     /\ UNCHANGED <<calls, controllerVars, serverVars, client, sendCh, dropped, player, connections,
                    mutex, source, taskVars, crashed, nCmds>>

\* the rest of setupVoiceConn when Open succeeds: the swap under the mutex,
\* Close(ctx) of the previous socket, the source set as frame provider
SwapVoiceConn(c, new) ==
  [k \in DOMAIN voiceConn |->
     IF k = new THEN [voiceConn[k] EXCEPT !.state = "open", !.provider = conn[c].source]
     ELSE IF k = conn[c].voiceConn
     THEN [voiceConn[k] EXCEPT !.state = IF @ = "open" THEN "closing" ELSE @]
     ELSE voiceConn[k]]

setupVoiceConn_opened(s) ==
  LET f == handler[s]
  IN /\ ~crashed
     /\ f.pc = "open"
     /\ voiceConn' = SwapVoiceConn(f.cid, f.sock)
     /\ conn' = [conn EXCEPT ![f.cid].voiceConn = f.sock, ![f.cid].channelID = f.ch,
                             ![f.cid].setupMu = FALSE]
     /\ handler' = [handler EXCEPT ![s].pc = IF f.isNew THEN "check" ELSE "reply"]
     /\ UNCHANGED <<calls, controllerVars, serverVars, client, sendCh, dropped, player, connections,
                    mutex, source, taskVars, crashed, nCmds>>

\* setupVoiceConn closing the previous socket before Open has succeeded
setupVoiceConn_failedAfterClose(s) ==
  LET f == handler[s]
  IN /\ ~crashed
     /\ f.pc = "open"
     /\ voiceConn' = [k \in DOMAIN voiceConn |->
                        IF k = f.sock THEN [voiceConn[k] EXCEPT !.state = "failed"]
                        ELSE IF k = conn[f.cid].voiceConn
                        THEN [voiceConn[k] EXCEPT !.state = IF @ = "open" THEN "closing" ELSE @]
                        ELSE voiceConn[k]]
     /\ conn' = [conn EXCEPT ![f.cid].setupMu = FALSE]
     /\ handler' = [handler EXCEPT ![s].pc = "reply", ![s].err = TRUE]
     /\ UNCHANGED <<calls, controllerVars, serverVars, client, sendCh, dropped, player, connections,
                    mutex, source, taskVars, crashed, nCmds>>

\* Open fails (handshake error, or the 30 s context expires)
setupVoiceConn_failed(s) ==
  LET f == handler[s]
  IN /\ ~crashed
     /\ f.pc = "open"
     /\ voiceConn' = [voiceConn EXCEPT ![f.sock].state = "failed"]
     /\ conn' = [conn EXCEPT ![f.cid].setupMu = FALSE]
     /\ handler' = [handler EXCEPT ![s].pc = "reply", ![s].err = TRUE]
     /\ UNCHANGED <<calls, controllerVars, serverVars, client, sendCh, dropped, player, connections,
                    mutex, source, taskVars, crashed, nCmds>>

\* the double check of Manager.Connect: the loser of a race closes the
\* connection it built and reconfigures the winner's
ConnectDoubleCheck(s) ==
  LET f == handler[s]
      key == connectionKey(f.bot, f.g)
  IN IF connections[key] # 0
     THEN /\ ConnClose(f.cid)
          /\ handler' = [handler EXCEPT ![s].pc = "setup", ![s].cid = connections[key],
                                        ![s].isNew = FALSE]
          /\ UNCHANGED connections
     ELSE /\ connections' = [connections EXCEPT ![key] = f.cid]
          /\ handler' = [handler EXCEPT ![s].pc = "reply"]
          /\ UNCHANGED <<conn, voiceConn, source, callbacks>>

Connect_check(s) ==
  /\ ~crashed
  /\ handler[s].pc = "check"
  /\ MutexFree
  /\ ConnectDoubleCheck(s)
  /\ UNCHANGED <<calls, controllerVars, serverVars, client, sendCh, dropped, player, mutex, playTasks,
                 closers, crashed, nCmds>>

\* handleVoiceUpdate after Connect: TrackError, or SetChannelID and VoiceConnect
handleVoiceUpdate_reply(s) ==
  LET f == handler[s]
  IN /\ ~crashed
     /\ f.pc = "reply"
     /\ IF f.err
        THEN /\ SendTo(s, <<MsgTrackError(f.g, NoUrl, "failed to connect to voice")>>)
             /\ UNCHANGED player
        ELSE /\ player' = [player EXCEPT ![f.pid] = SetChannelID(@, f.ch)]
             /\ SendTo(s, <<MsgVoiceConnect(f.g, f.ch)>>)
     /\ Return(s)
     /\ UNCHANGED <<calls, controllerVars, serverVars, client, voiceVars, taskVars, crashed, nCmds>>

(***************************************************************************)
(* Disconnect.                                                             *)
(***************************************************************************)
\* handleDisconnect: Manager.Disconnect (the close runs on its own
\* goroutine), removePlayer, VoiceDisconnect("requested")
handleDisconnect(s, g) ==
  LET key == connectionKey(client[s].clientId, g)
  IN /\ ReadyToRead(s)
     /\ nCmds' = nCmds + 1
     /\ IF ~MutexFree
        THEN Block(s) /\ UNCHANGED <<connections, closers, client, sendCh, dropped>>
        ELSE /\ connections' = [connections EXCEPT ![key] = 0]
             /\ closers' = IF connections[key] # 0
                           THEN Append(closers, connections[key]) ELSE closers
             /\ client' = removePlayer(client, s, g)
             /\ SendTo(s, <<MsgVoiceDisconnect(g, "requested")>>)
             /\ UNCHANGED handler
     /\ UNCHANGED <<calls, controllerVars, serverVars, player, mutex, conn, voiceConn, source, playTasks,
                    callbacks, crashed>>

\* the goroutine of Manager.Disconnect: conn.Close()
Disconnect_close(i) ==
  /\ ~crashed
  /\ i \in DOMAIN closers
  /\ ConnClose(closers[i])
  /\ closers' = RemoveAt(closers, i)
  /\ UNCHANGED <<calls, controllerVars, serverVars, client, sendCh, dropped, player, handler,
                 connections, mutex, playTasks, crashed, nCmds>>

(***************************************************************************)
(* The voice library: a socket that closes runs the close handler that     *)
(* setupVoiceConn gave it.                                                 *)
(***************************************************************************)
\* the close handler without the comparison with the current socket
CloseHandlerFiresForAnySocket(k) == conn[voiceConn[k].conn].closed

\* whether the close handler of socket k goes on to c.onDisconnect()
CloseHandlerFires(k) ==
  /\ conn[voiceConn[k].conn].closed
  /\ conn[voiceConn[k].conn].voiceConn = k

closeHandler(k) ==
  /\ voiceConn' = [voiceConn EXCEPT ![k].state = "closed"]
  /\ callbacks' = IF CloseHandlerFires(k)
                  THEN Append(callbacks, NewCallback("disconnect", voiceConn[k].conn, 0, ""))
                  ELSE callbacks
  /\ UNCHANGED <<calls, controllerVars, serverVars, client, sendCh, dropped, player, handler,
                 connections, mutex, conn, source, playTasks, closers, crashed, nCmds>>

\* the voice connection is lost: an open socket closes by itself
voiceConn_lost(k) ==
  /\ ~crashed
  /\ k \in DOMAIN voiceConn
  /\ voiceConn[k].state = "open"
  /\ closeHandler(k)

\* Close(ctx) of a socket completes
voiceConn_closed(k) ==
  /\ ~crashed
  /\ k \in DOMAIN voiceConn
  /\ voiceConn[k].state = "closing"
  /\ closeHandler(k)

(***************************************************************************)
(* Frame pulls: the audio sender of an open socket polls its provider.     *)
(***************************************************************************)
\* handleTrackEnd without the comparison with c.source
handleTrackEndOfAnySource(c, src, reason) ==
  /\ conn' = [conn EXCEPT ![c].source = IF @ = src THEN 0 ELSE @]
  /\ callbacks' = Append(callbacks, NewCallback("trackEnd", c, src, reason))

\* Connection.handleTrackEnd: only the source still installed ends
handleTrackEnd(c, src, reason) ==
  IF conn[c].source # src
  THEN UNCHANGED <<conn, callbacks>>
  ELSE /\ conn' = [conn EXCEPT ![c].source = 0]
       /\ callbacks' = Append(callbacks, NewCallback("trackEnd", c, src, reason))

Pulls(k) ==
  /\ ~crashed
  /\ k \in DOMAIN voiceConn
  /\ voiceConn[k].state = "open"
  /\ voiceConn[k].provider # 0

\* MP3Source.ProvideOpusFrame returns a frame
ProvideOpusFrame(k) ==
  LET src == voiceConn[k].provider
  IN /\ Pulls(k)
     /\ ~source[src].closed
     /\ source[src].frames > 0
     /\ source' = [source EXCEPT ![src].frames = @ - 1, ![src].position = @ + FrameMs]
     /\ UNCHANGED <<calls, controllerVars, serverVars, client, sendCh, dropped, player, handler,
                    connections, mutex, conn, voiceConn, taskVars, crashed, nCmds>>

\* MP3Source.ProvideOpusFrame returns io.EOF: closed, or the stream is over
ProvideOpusFrame_EOF(k) ==
  LET src == voiceConn[k].provider
  IN /\ Pulls(k)
     /\ source[src].closed \/ source[src].frames = 0
     /\ handleTrackEnd(voiceConn[k].conn, src, "finished")
     /\ UNCHANGED <<calls, controllerVars, serverVars, client, sendCh, dropped, player, handler,
                    connections, mutex, voiceConn, source, playTasks, closers,
                    crashed, nCmds>>

\* MP3Source.ProvideOpusFrame returns a read or encode error
ProvideOpusFrame_error(k) ==
  LET src == voiceConn[k].provider
  IN /\ Pulls(k)
     /\ ~source[src].closed
     /\ handleTrackEnd(voiceConn[k].conn, src, "error")
     /\ UNCHANGED <<calls, controllerVars, serverVars, client, sendCh, dropped, player, handler,
                    connections, mutex, voiceConn, source, playTasks, closers,
                    crashed, nCmds>>

(***************************************************************************)
(* Callbacks: Manager.onTrackEnd / onDisconnect and the EventHandler.      *)
(***************************************************************************)
\* a callback has visited its whole snapshot; after the last loop of a
\* callback nothing is left of it but the record of what it delivered
LoopDone(cb) == cb.idx > cb.snap.len
Finished(cb) == [cb EXCEPT !.pc = "done", !.snap = NilSlice, !.shared = FALSE, !.idx = 0]
Advance(cb) == IF LoopDone(cb) /\ cb.pc # "exception" THEN Finished(cb) ELSE cb

\* a callback takes its snapshot and goes to the loop `pc`
TakeSnapshot(cb, pc) ==
  Advance([cb EXCEPT !.pc = pc, !.snap = Snapshot(cb.bot),
                     !.shared = clientsByClientId[cb.bot].len > 0, !.idx = 1])

\* a callback moves past session cl, having sent to it or not
Visited(cb, cl, sent) ==
  Advance([cb EXCEPT !.idx = @ + 1,
                     !.delivered = IF sent THEN Append(@, cl) ELSE @])

\* Manager.onTrackEnd: read the handler under RLock, then dispatch
onTrackEnd(i) ==
  LET cb == callbacks[i]
  IN /\ ~crashed
     /\ cb.kind = "trackEnd"
     /\ cb.pc = "start"
     /\ MutexFree
     /\ callbacks' = [callbacks EXCEPT ![i] =
           TakeSnapshot(cb, IF cb.reason = "error" THEN "exception" ELSE "end")]
     /\ UNCHANGED <<calls, controllerVars, serverVars, client, sendCh, dropped, player, handler,
                    voiceVars, playTasks, closers, crashed, nCmds>>

\* Server.OnTrackException: one turn of the loop, or its end
OnTrackException(i) ==
  LET cb == callbacks[i]
      cl == SnapElem(cb, cb.idx)
  IN /\ ~crashed
     /\ cb.pc = "exception"
     /\ IF LoopDone(cb)
        THEN /\ callbacks' = [callbacks EXCEPT ![i] = TakeSnapshot(cb, "end")]
             /\ UNCHANGED <<sendCh, dropped>>
        ELSE /\ SendTo(cl, <<MsgTrackError(cb.g, source[cb.src].url, "error")>>)
             /\ callbacks' = [callbacks EXCEPT ![i].idx = @ + 1]
     /\ UNCHANGED <<calls, controllerVars, serverVars, client, player, handler, voiceVars, playTasks,
                    closers, crashed, nCmds>>

\* Server.OnTrackEnd: one turn of the loop
OnTrackEnd(i) ==
  LET cb == callbacks[i]
      cl == SnapElem(cb, cb.idx)
      pid == getPlayer(cl, cb.g)
  IN /\ ~crashed
     /\ cb.pc = "end"
     /\ IF pid = 0
        THEN /\ callbacks' = [callbacks EXCEPT ![i] = Visited(cb, cl, FALSE)]
             /\ UNCHANGED <<player, sendCh, dropped>>
        ELSE /\ player' = IF cb.reason \notin {"replaced", "stopped"}
                          THEN [player EXCEPT ![pid] = SetIdleState(@)]
                          ELSE player
             /\ SendTo(cl, <<MsgTrackEnd(cb.g, source[cb.src].url, cb.reason)>>)
             /\ callbacks' = [callbacks EXCEPT ![i] = Visited(cb, cl, TRUE)]
     /\ UNCHANGED <<calls, controllerVars, serverVars, client, handler, voiceVars, playTasks, closers,
                    crashed, nCmds>>

\* Manager.onDisconnect: Lock, delete the entry if it is still this
\* connection, then RUnlock of the write-locked mutex.  With no reader
\* waiting the runtime ends the process ("RUnlock of unlocked RWMutex");
\* with one waiting the call returns and the mutex stays locked for ever.
onDisconnect(i, fatal) ==
  LET cb == callbacks[i]
      key == connectionKey(cb.bot, cb.g)
  IN /\ ~crashed
     /\ cb.kind = "disconnect"
     /\ cb.pc = "start"
     /\ MutexFree
     /\ connections' = IF connections[key] = cb.cid
                       THEN [connections EXCEPT ![key] = 0] ELSE connections
     /\ IF fatal
        THEN /\ crashed' = TRUE
             /\ UNCHANGED <<mutex, callbacks>>
        ELSE /\ mutex' = "stuck"
             /\ callbacks' = [callbacks EXCEPT ![i] = TakeSnapshot(cb, "voiceDisconnected")]
             /\ UNCHANGED crashed
     /\ UNCHANGED <<calls, controllerVars, serverVars, client, sendCh, dropped, player, handler, conn,
                    voiceConn, source, playTasks, closers, nCmds>>

\* Server.OnVoiceDisconnected: one turn of the loop
OnVoiceDisconnected(i) ==
  LET cb == callbacks[i]
      cl == SnapElem(cb, cb.idx)
  IN /\ ~crashed
     /\ cb.pc = "voiceDisconnected"
     /\ client' = removePlayer(client, cl, cb.g)
     /\ SendTo(cl, <<MsgVoiceDisconnect(cb.g, "connection_lost")>>)
     /\ callbacks' = [callbacks EXCEPT ![i] = Visited(cb, cl, TRUE)]
     /\ UNCHANGED <<calls, controllerVars, serverVars, player, handler, voiceVars, playTasks, closers,
                    crashed, nCmds>>

(***************************************************************************)
(* PlayerMigrate.                                                          *)
(***************************************************************************)
\* Player.GetMigrateData: the stored position plus the time since startedAt
GetMigrateData(p, elapsed) ==
  [url |-> p.currentURL, position |-> p.position + elapsed, volume |-> p.volume,
   state |-> p.state]

handlePlayerMigrate(s, g, elapsed) ==
  LET pid == getPlayer(s, g)
      d == GetMigrateData(player[pid], elapsed)
  IN /\ ReadyToRead(s)
     /\ nCmds' = nCmds + 1
     /\ IF pid = 0
        THEN UNCHANGED <<sendCh, dropped>>
        ELSE SendTo(s, <<MsgMigrateReady(g, d.url, d.position, d.volume, d.state)>>)
     /\ UNCHANGED <<calls, controllerVars, serverVars, client, player, handler, voiceVars, taskVars, crashed>>

(***************************************************************************)
(* Drain and the main goroutine: a signal or a listener error, Drain, the  *)
(* wait for the players to leave, then the shutdown.                       *)
(***************************************************************************)
DrainTimeoutSec == 30

\* Server.Drain, its first critical section: the flag
Drain ==
  /\ ~crashed
  /\ main.pc = "serving"
  /\ draining' = TRUE
  /\ main' = [main EXCEPT !.pc = "broadcast"]
  /\ UNCHANGED <<calls, controllerVars, clients, clientsByClientId, stats, client, sendCh, dropped, player,
                 handler, voiceVars, taskVars, crashed, nCmds>>

\* Server.Drain, its second: NodeDraining to the sessions registered now
Drain_broadcast ==
  LET msg == MsgNodeDraining("shutdown", DrainTimeoutSec * 1000)
  IN /\ ~crashed
     /\ main.pc = "broadcast"
     /\ sendCh' = [s \in Sessions |->
                     IF s \in clients THEN send(sendCh[s], msg) ELSE sendCh[s]]
     /\ dropped' = [s \in Sessions |->
                     IF s \in clients
                     THEN Min(MaxDropped, dropped[s] + nDropped(sendCh[s], <<msg>>))
                     ELSE dropped[s]]
     /\ main' = [main EXCEPT !.pc = "loop"]
     /\ UNCHANGED <<calls, controllerVars, clients, clientsByClientId, draining, stats, client, player,
                    handler, voiceVars, taskVars, crashed, nCmds>>

\* DrainLoop with the poll that leaves at PlayerCount() > 0
main_pollLeavesOnPlayers ==
  /\ ~crashed
  /\ main.pc = "loop"
  /\ main' = IF PlayerCount # 0 THEN [main EXCEPT !.pc = "shutdown"] ELSE main
  /\ UNCHANGED <<calls, controllerVars, clients, clientsByClientId, draining, stats, client, sendCh, dropped,
                 player, handler, voiceVars, taskVars, crashed, nCmds>>

\* DrainLoop, case <-ticker.C: leave the loop when PlayerCount() is 0
main_poll ==
  /\ ~crashed
  /\ main.pc = "loop"
  /\ main' = IF PlayerCount = 0 THEN [main EXCEPT !.pc = "shutdown"] ELSE main
  /\ UNCHANGED <<calls, controllerVars, clients, clientsByClientId, draining, stats, client, sendCh, dropped,
                 player, handler, voiceVars, taskVars, crashed, nCmds>>

\* DrainLoop, case <-drainCtx.Done(): the deadline has passed
main_deadline ==
  /\ ~crashed
  /\ main.pc = "loop"
  /\ main' = [pc |-> "shutdown", timedOut |-> TRUE]
  /\ UNCHANGED <<calls, controllerVars, clients, clientsByClientId, draining, stats, client, sendCh, dropped,
                 player, handler, voiceVars, taskVars, crashed, nCmds>>

\* Connection.Close of c in the heaps st
CloseIn(st, c) ==
  IF st.conn[c].closed THEN st
  ELSE LET src == st.conn[c].source
       IN [conn |-> [st.conn EXCEPT ![c].source = 0, ![c].closed = TRUE],
           source |-> IF src # 0 THEN [st.source EXCEPT ![src].closed = TRUE]
                      ELSE st.source,
           callbacks |-> IF src # 0
                         THEN Append(st.callbacks, NewCallback("trackEnd", c, src, "stopped"))
                         ELSE st.callbacks,
           voiceConn |-> [k \in DOMAIN st.voiceConn |->
                            IF k = st.conn[c].voiceConn
                            THEN [st.voiceConn[k] EXCEPT
                                    !.provider = 0,
                                    !.state = IF @ = "open" THEN "closing" ELSE @]
                            ELSE st.voiceConn[k]]]

RECURSIVE CloseEach(_, _)
CloseEach(st, cs) ==
  IF cs = {} THEN st
  ELSE LET c == CHOOSE x \in cs : \A y \in cs : x <= y
       IN CloseEach(CloseIn(st, c), cs \ {c})

\* Manager.Close, after the loop: every registered connection is closed and
\* its entry deleted, under the mutex
main_closeManager ==
  LET st == CloseEach([conn |-> conn, source |-> source, callbacks |-> callbacks,
                       voiceConn |-> voiceConn],
                      {connections[k] : k \in Keys} \ {0})
  IN /\ ~crashed
     /\ main.pc = "shutdown"
     /\ MutexFree
     /\ conn' = st.conn
     /\ source' = st.source
     /\ callbacks' = st.callbacks
     /\ voiceConn' = st.voiceConn
     /\ connections' = [k \in Keys |-> 0]
     /\ main' = [main EXCEPT !.pc = "listeners"]
     /\ UNCHANGED <<calls, controllerVars, clients, clientsByClientId, draining, stats, client, sendCh, dropped,
                    player, handler, mutex, playTasks, closers, crashed, nCmds>>

\* both http.Server.Shutdown calls, then main returns
main_shutdown ==
  /\ ~crashed
  /\ main.pc = "listeners"
  /\ main' = [main EXCEPT !.pc = "stopped"]
  /\ UNCHANGED <<calls, controllerVars, clients, clientsByClientId, draining, stats, client, sendCh, dropped,
                 player, handler, voiceVars, taskVars, crashed, nCmds>>

(***************************************************************************)
(* The node after NewServer and NewManager: nothing connected.             *)
(***************************************************************************)
ServerInit ==
  /\ clients = {}
  /\ clientsByClientId = [b \in BotIds |-> NilSlice]
  /\ draining = FALSE
  /\ main = Serving
  /\ stats = NoStats
  /\ client = [s \in Sessions |-> NoClient]
  /\ sendCh = [s \in Sessions |-> <<>>]
  /\ dropped = [s \in Sessions |-> 0]
  /\ player = <<>>
  /\ handler = [s \in Sessions |-> Idle]
  /\ connections = [k \in Keys |-> 0]
  /\ mutex = "free"
  /\ conn = <<>>
  /\ voiceConn = <<>>
  /\ source = <<>>
  /\ playTasks = <<>>
  /\ callbacks = <<>>
  /\ closers = <<>>
  /\ crashed = FALSE
  /\ nCmds = 0
  /\ calls = <<>>

Init == ServerInit /\ ControllerInit

\* the steps of the goroutines that VoiceUpdate and the voice library start
VoiceSteps(s) ==
  \/ setupVoiceConn(s)
  \/ setupVoiceConn_opened(s)
  \/ setupVoiceConn_failed(s)
  \/ Connect_check(s)
  \/ handleVoiceUpdate_reply(s)

\* the steps of the detached play tasks
PlaySteps ==
  \/ \E i \in DOMAIN playTasks : playTask_create(i)
  \/ \E i \in DOMAIN playTasks : playTask_play(i)
  \/ \E i \in DOMAIN playTasks : playTask_setPlaying(i)
  \/ \E i \in DOMAIN playTasks : playTask_reply(i)

\* the replies of Pause, Resume and Stop
ReplySteps(s) ==
  \/ handlePause_reply(s)
  \/ handleResume_reply(s)
  \/ handleStop_reply(s)

\* the audio sender of a socket
FrameSteps ==
  \/ \E k \in DOMAIN voiceConn : ProvideOpusFrame(k)
  \/ \E k \in DOMAIN voiceConn : ProvideOpusFrame_EOF(k)
  \/ \E k \in DOMAIN voiceConn : ProvideOpusFrame_error(k)

\* the track-end callbacks
EndSteps ==
  \/ \E i \in DOMAIN callbacks : onTrackEnd(i)
  \/ \E i \in DOMAIN callbacks : OnTrackEnd(i)

TrackEndSteps ==
  \/ EndSteps
  \/ \E i \in DOMAIN callbacks : OnTrackException(i)

(***************************************************************************)
(* Playback: one session of one bot drives one guild.  The session         *)
(* identifies first, as the protocol asks; then any commands, up to        *)
(* MaxCmds in all, with the goroutines they start running in any order.    *)
(***************************************************************************)
MaxCmds == 4
PlayVolumes == {0, 1500}
Volumes == {-5, 75, 9999}
SeekPositions == {FrameMs}
Elapsed == {0}

\* s may send one more command
CanSend(s) == nCmds < MaxCmds /\ client[s].identified

PlaybackCommand(s) ==
  \/ CanSend(s) /\ handleVoiceUpdate(s, "g1", "c1")
  \/ CanSend(s) /\ \E url \in {UrlOk, Url404}, vol \in PlayVolumes :
                      handlePlay(s, "g1", url, 0, vol)
  \/ CanSend(s) /\ handlePause(s, "g1")
  \/ CanSend(s) /\ handleResume(s, "g1")
  \/ CanSend(s) /\ handleStop(s, "g1")
  \/ CanSend(s) /\ \E pos \in SeekPositions : handleSeek(s, "g1", pos)
  \/ CanSend(s) /\ \E v \in Volumes : handleVolume(s, "g1", v)
  \/ CanSend(s) /\ \E e \in Elapsed : handlePlayerMigrate(s, "g1", e)

Next ==
  \/ HandleWebSocket("s1")
  \/ ~client["s1"].identified /\ handleIdentify("s1", 1)
  \/ PlaybackCommand("s1")
  \/ VoiceSteps("s1")
  \/ ReplySteps("s1")
  \/ PlaySteps
  \/ FrameSteps
  \/ TrackEndSteps

Spec == Init /\ [][Next]_vars

(***************************************************************************)
(* What the claims speak of.                                               *)
(***************************************************************************)
\* no handler, detached task, callback or closing goroutine is in progress
Quiescent ==
  /\ ~crashed
  /\ \A s \in Sessions : handler[s].pc = "idle"
  /\ playTasks = <<>>
  /\ closers = <<>>
  /\ \A i \in DOMAIN callbacks : callbacks[i].pc = "done"

\* the connection of (bot, g) holds a source and is not paused
HoldsUnpausedSource(bot, g) ==
  /\ getConnection(bot, g) # 0
  /\ conn[getConnection(bot, g)].source # 0
  /\ ~conn[getConnection(bot, g)].paused

\* the messages enqueued to s that satisfy P, in order
RECURSIVE Select(_, _)
Select(ch, ops) ==
  IF ch = <<>> THEN <<>>
  ELSE IF Head(ch).op \in ops THEN <<Head(ch)>> \o Select(Tail(ch), ops)
  ELSE Select(Tail(ch), ops)

PlayerUpdates(s) == Select(sendCh[s], {"PlayerUpdate"})
LastPlayerUpdate(s) == PlayerUpdates(s)[Len(PlayerUpdates(s))]

\* a track ended by itself: end of stream or an error of the stream
EndedByItself ==
  \E i \in DOMAIN callbacks : callbacks[i].reason \in {"finished", "error"}

\* C1: whenever no handler, play task or callback is in progress, a session's
\* Player is in state playing if and only if the voice connection of its
\* (bot, guild) holds a source and is not paused
C1_PlayingIffSourceUnpaused ==
  Quiescent =>
    \A s \in Sessions, g \in Guilds :
      getPlayer(s, g) # 0 =>
        (player[getPlayer(s, g)].state = "playing"
           <=> HoldsUnpausedSource(client[s].clientId, g))

\* a Play of s failed, or its VoiceUpdate did
SomeCommandFailed(s) == Select(sendCh[s], {"TrackError"}) # <<>>

\* C2: once the commands of a session and the play tasks they started are
\* over (every command having succeeded and no track having ended by
\* itself), the last PlayerUpdate enqueued to the session carries the state
\* and the volume of the stored Player record
C2_LastUpdateIsStoredRecord ==
  (Quiescent /\ ~EndedByItself /\ \A s \in Sessions : ~SomeCommandFailed(s)) =>
    \A s \in Sessions, g \in Guilds :
      (getPlayer(s, g) # 0 /\ PlayerUpdates(s) # <<>>) =>
        /\ LastPlayerUpdate(s).state = player[getPlayer(s, g)].state
        /\ LastPlayerUpdate(s).volume = player[getPlayer(s, g)].volume

\* C5: the stored volume of every Player, and the volume of every
\* PlayerUpdate and MigrateReady enqueued, lies in [0, 1000]
C5_VolumeClamped ==
  /\ \A p \in DOMAIN player : player[p].volume \in 0..1000
  /\ \A s \in Sessions : \A k \in DOMAIN sendCh[s] :
       sendCh[s][k].op \in {"PlayerUpdate", "MigrateReady"} =>
         sendCh[s][k].volume \in 0..1000

(***************************************************************************)
(* The sequence Play, Pause, Resume, Stop of one session, after Identify   *)
(* and VoiceUpdate; nCmds is the position in the sequence.  The session    *)
(* sends Pause once the Play has been answered.                            *)
(***************************************************************************)
SequenceCommand(s) ==
  \/ nCmds = 0 /\ handleIdentify(s, 1)
  \/ nCmds = 1 /\ handleVoiceUpdate(s, "g1", "c1")
  \/ nCmds = 2 /\ handlePlay(s, "g1", UrlOk, 0, 0)
  \/ nCmds = 3 /\ playTasks = <<>> /\ handlePause(s, "g1")
  \/ nCmds = 4 /\ handleResume(s, "g1")
  \/ nCmds = 5 /\ handleStop(s, "g1")

NextSequence ==
  \/ HandleWebSocket("s1")
  \/ SequenceCommand("s1")
  \/ VoiceSteps("s1")
  \/ ReplySteps("s1")
  \/ PlaySteps
  \/ FrameSteps
  \/ TrackEndSteps

SpecSequence == Init /\ [][NextSequence]_vars

\* the replies to the playback commands of s: what each is, in order
Brief(m) == <<m.op, m.state, m.reason>>
Replies(s) ==
  LET ms == Select(sendCh[s], {"TrackStart", "TrackEnd", "TrackError", "PlayerUpdate"})
  IN [k \in DOMAIN ms |-> Brief(ms[k])]

ExpectedReplies ==
  << <<"TrackStart", "", "">>,
     <<"PlayerUpdate", "playing", "">>,
     <<"PlayerUpdate", "paused", "">>,
     <<"PlayerUpdate", "playing", "">>,
     <<"TrackEnd", "", "stopped">>,
     <<"PlayerUpdate", "idle", "">> >>

\* the voice connection of s was established before its Play
Established(s) == Select(sendCh[s], {"VoiceConnect"}) # <<>>

\* C4: with an established voice connection, after Play of a fetchable URL
\* and then Pause, Resume, Stop (the track not ending by itself meanwhile),
\* the replies enqueued are TrackStart, PlayerUpdate(playing),
\* PlayerUpdate(paused), PlayerUpdate(playing), TrackEnd(stopped),
\* PlayerUpdate(idle, position 0), in this order
C4_ReplySequence ==
  (nCmds = 6 /\ Quiescent /\ Established("s1") /\ ~EndedByItself) =>
    /\ Replies("s1") = ExpectedReplies
    /\ LastPlayerUpdate("s1").position = 0

(***************************************************************************)
(* Voice connections: two sessions of one bot connect and disconnect the   *)
(* same guild, one of them plays, sockets close or are lost.               *)
(***************************************************************************)
MaxVoiceCmds == 5

CanSendVoice(s) == nCmds < MaxVoiceCmds /\ client[s].identified

VoiceCommand(s) ==
  \/ ~client[s].identified /\ handleIdentify(s, 1)
  \/ CanSendVoice(s) /\ handleVoiceUpdate(s, "g1", "c1")
  \/ CanSendVoice(s) /\ handleDisconnect(s, "g1")

SocketSteps ==
  \/ \E k \in DOMAIN voiceConn : voiceConn_lost(k)
  \/ \E k \in DOMAIN voiceConn : voiceConn_closed(k)
  \/ \E i \in DOMAIN closers : Disconnect_close(i)

DisconnectSteps ==
  \/ \E i \in DOMAIN callbacks, fatal \in BOOLEAN : onDisconnect(i, fatal)
  \/ \E i \in DOMAIN callbacks : OnVoiceDisconnected(i)

NextVoice ==
  \/ \E s \in Sessions : HandleWebSocket(s)
  \/ \E s \in Sessions : VoiceCommand(s)
  \/ CanSendVoice("s1") /\ handlePlay("s1", "g1", UrlOk, 0, 0)
  \/ \E s \in Sessions : VoiceSteps(s)
  \/ PlaySteps
  \/ SocketSteps
  \/ DisconnectSteps
  \/ EndSteps

SpecVoice == Init /\ [][NextVoice]_vars

\* the connections of (bot, g) that are open: not closed, their socket open
IsOpen(c) ==
  /\ ~conn[c].closed
  /\ conn[c].voiceConn # 0
  /\ voiceConn[conn[c].voiceConn].state = "open"

OpenConnections(bot, g) ==
  {c \in DOMAIN conn : conn[c].bot = bot /\ conn[c].g = g /\ IsOpen(c)}

\* the current socket of c closed though Close() was never called on c
Lost(c) ==
  /\ ~conn[c].closed
  /\ conn[c].voiceConn # 0
  /\ voiceConn[conn[c].voiceConn].state = "closed"

\* the executions of on_track_end for source src
TrackEnds(src) ==
  {i \in DOMAIN callbacks : callbacks[i].kind = "trackEnd" /\ callbacks[i].src = src}

\* src was installed, and was since replaced or stopped (it is closed), or
\* its connection has ended
Ended(src) ==
  /\ source[src].conn # 0
  /\ source[src].closed \/ conn[source[src].conn].closed

\* C3: on_track_end is invoked at most once for a source, with one of the
\* four reasons, and, once nothing is in progress, exactly once for every
\* installed source that was replaced or stopped or whose connection ended
C3_ExactlyOneTrackEnd ==
  \A src \in DOMAIN source :
    /\ Cardinality(TrackEnds(src)) <= 1
    /\ \A i \in TrackEnds(src) :
         callbacks[i].reason \in {"finished", "stopped", "replaced", "error"}
    /\ (Quiescent /\ Ended(src)) => Cardinality(TrackEnds(src)) = 1

\* C7: at most one open voice connection exists for a (bot, guild)
C7_AtMostOneOpenConnection ==
  \A bot \in BotIds, g \in Guilds : Cardinality(OpenConnections(bot, g)) <= 1

\* C9: once nothing is in progress, a registered connection whose current
\* socket was lost has been removed from the manager, and every session of
\* its bot has lost its player for the guild and got
\* VoiceDisconnect("connection_lost")
C9_LostConnectionIsRemoved ==
  Quiescent =>
    \A c \in DOMAIN conn :
      Lost(c) =>
        /\ getConnection(conn[c].bot, conn[c].g) # c
        /\ \A s \in clients :
             client[s].clientId = conn[c].bot =>
               /\ getPlayer(s, conn[c].g) = 0
               /\ \E k \in DOMAIN sendCh[s] :
                    sendCh[s][k] = MsgVoiceDisconnect(conn[c].g, "connection_lost")

(***************************************************************************)
(* Broadcast of track ends: two sessions, of the same bot or not, hold     *)
(* players for the guild; one plays, tracks end, sessions close.           *)
(***************************************************************************)
MaxBroadcastCmds == 4

CanSendBroadcast(s) == nCmds < MaxBroadcastCmds /\ client[s].identified

BroadcastCommand(s) ==
  \/ ~client[s].identified /\ \E bot \in Bots : handleIdentify(s, bot)
  \/ CanSendBroadcast(s) /\ handleVoiceUpdate(s, "g1", "c1")
  \/ CanSendBroadcast(s) /\ handlePlay(s, "g1", UrlOk, 0, 0)

NextBroadcast ==
  \/ HandleWebSocket("s1")
  \/ client["s1"].identified /\ HandleWebSocket("s2")
  \/ \E s \in Sessions : BroadcastCommand(s)
  \/ close("s1")
  \/ \E s \in Sessions : VoiceSteps(s)
  \/ PlaySteps
  \/ \E k \in DOMAIN voiceConn : ProvideOpusFrame(k)
  \/ \E k \in DOMAIN voiceConn : ProvideOpusFrame_EOF(k)
  \/ EndSteps

SpecBroadcast == Init /\ [][NextBroadcast]_vars

\* how often session s occurs in the sequence q
Count(q, s) == Cardinality({k \in DOMAIN q : q[k] = s})

\* C10: one execution of on_track_end(bot, guild, source, reason) enqueues
\* TrackEnd once, never twice, to a session of bot that holds a player for
\* the guild, and to no session of another bot
C10_OneTrackEndPerSession ==
  \A i \in DOMAIN callbacks :
    callbacks[i].kind = "trackEnd" =>
      \A s \in Sessions :
        /\ Count(callbacks[i].delivered, s) <= 1
        /\ Count(callbacks[i].delivered, s) = 1 => client[s].clientId = callbacks[i].bot

(***************************************************************************)
(* The outbound queue: one session is sent Pongs while its write pump is   *)
(* stalled; the pump drains the queue once the pings are over.             *)
(***************************************************************************)
MaxPings == 258

NextQueue ==
  \/ HandleWebSocket("s1")
  \/ ~client["s1"].identified /\ handleIdentify("s1", 1)
  \/ nCmds < MaxPings /\ handlePing("s1")
  \/ nCmds = MaxPings /\ writePump("s1")

SpecQueue == Init /\ [][NextQueue]_vars

\* C6: the queue of a session never holds more than 256 messages, and a
\* send that finds it full returns at once (the handler is back between two
\* messages), leaves the queue as it is and drops the message
C6_SendNeverBlocks ==
  [][/\ Len(sendCh'["s1"]) <= SendChCap
     /\ (Len(sendCh["s1"]) = SendChCap /\ nCmds' # nCmds) =>
          /\ sendCh'["s1"] = sendCh["s1"]
          /\ handler'["s1"].pc = "idle"
          /\ dropped'["s1"] = Min(MaxDropped, dropped["s1"] + 1)]_vars

\* the queue is full and a message was dropped
C6_Witness == Len(sendCh["s1"]) = SendChCap /\ dropped["s1"] > 0

(***************************************************************************)
(* One Connection under the calls of its callers: the manager plays the    *)
(* sources the factory made, pauses, resumes, stops, closes, and the audio *)
(* sender pulls frames.  The on_track_end goroutines are started, which is *)
(* all the Connection does about them.                                     *)
(***************************************************************************)
MaxSources == 2

\* the node once session s1 of bot 1 has sent Identify and VoiceUpdate for
\* g1 and has been answered Ready and VoiceConnect
Connected ==
  /\ clients = {"s1"}
  /\ clientsByClientId = [b \in BotIds |->
                            IF b = 1 THEN SliceAppend(NilSlice, "s1") ELSE NilSlice]
  /\ draining = FALSE
  /\ main = Serving
  /\ ControllerInit
  /\ stats = NoStats
  /\ client = [s \in Sessions |->
                 IF s = "s1"
                 THEN [NewClient EXCEPT !.clientId = 1, !.identified = TRUE,
                                        !.players = [g \in Guilds |-> 1]]
                 ELSE NoClient]
  /\ sendCh = [s \in Sessions |->
                 IF s = "s1" THEN <<MsgReady, MsgVoiceConnect("g1", "c1")>> ELSE <<>>]
  /\ dropped = [s \in Sessions |-> 0]
  /\ player = <<SetChannelID(NewPlayer, "c1")>>
  /\ handler = [s \in Sessions |-> Idle]
  /\ connections = [k \in Keys |-> IF k = connectionKey(1, "g1") THEN 1 ELSE 0]
  /\ mutex = "free"
  /\ conn = <<[NewConnection(1, "g1") EXCEPT !.channelID = "c1", !.voiceConn = 1]>>
  /\ voiceConn = <<[conn |-> 1, state |-> "open", provider |-> 0]>>
  /\ source = <<>>
  /\ playTasks = <<>>
  /\ callbacks = <<>>
  /\ closers = <<>>
  /\ crashed = FALSE
  /\ nCmds = 2
  /\ calls = <<>>

\* DefaultFactory.CreateFromURL hands a source to a caller of Play
Factory_Create ==
  /\ ~crashed
  /\ Len(source) < MaxSources
  /\ source' = Append(source, NewMP3Source(UrlOk))
  /\ UNCHANGED <<calls, controllerVars, serverVars, client, sendCh, dropped, player, handler,
                 connections, mutex, conn, voiceConn, taskVars, crashed, nCmds>>

\* a call of method Op of Connection c
Call(c, Op(_)) ==
  /\ ~crashed
  /\ c \in DOMAIN conn
  /\ Op(c)
  /\ UNCHANGED <<calls, controllerVars, serverVars, client, sendCh, dropped, player, handler,
                 connections, mutex, playTasks, closers, crashed, nCmds>>

\* Connection.Play with a source that was not played yet
Connection_Play(c, sid) ==
  /\ sid \in DOMAIN source
  /\ source[sid].conn = 0
  /\ LET Op(cc) == ConnPlay(cc, sid) IN Call(c, Op)

Connection_Pause(c)  == Call(c, ConnPause)
Connection_Resume(c) == conn[c].paused /\ Call(c, ConnResume)
Connection_Stop(c)   == conn[c].source # 0 /\ Call(c, ConnStop)
Connection_Close(c)  == ~conn[c].closed /\ Call(c, ConnClose)

NextConnection ==
  \/ Factory_Create
  \/ \E sid \in 1..MaxSources : Connection_Play(1, sid)
  \/ Connection_Pause(1)
  \/ Connection_Resume(1)
  \/ Connection_Stop(1)
  \/ Connection_Close(1)
  \/ FrameSteps

SpecConnection == Connected /\ [][NextConnection]_vars

\* the sources installed into c that are neither closed nor ended
LiveSources(c) ==
  {src \in DOMAIN source :
     source[src].conn = c /\ ~source[src].closed /\ TrackEnds(src) = {}}

\* a step installs a source into c in place of another
Replaces(c) ==
  /\ conn[c].source # 0
  /\ conn'[c].source # 0
  /\ conn'[c].source # conn[c].source

\* C8: a connection has at most one installed source, the one it holds; a
\* play that finds a source installed closes it, schedules
\* on_track_end(replaced) for it and leaves the new source as the only one
C8_OneInstalledSource ==
  [][\A c \in DOMAIN conn :
       /\ LiveSources(c)' \subseteq {conn'[c].source}
       /\ Replaces(c) =>
            /\ source'[conn[c].source].closed
            /\ \E i \in DOMAIN callbacks' \ DOMAIN callbacks :
                 /\ callbacks'[i].kind = "trackEnd"
                 /\ callbacks'[i].src = conn[c].source
                 /\ callbacks'[i].reason = "replaced"
            /\ LiveSources(c)' = {conn'[c].source}]_vars

\* a source was replaced by the one now installed
C8_Witness ==
  \E c \in DOMAIN conn, i \in DOMAIN callbacks :
    /\ callbacks[i].reason = "replaced"
    /\ callbacks[i].cid = c
    /\ source[callbacks[i].src].closed
    /\ conn[c].source # 0
    /\ LiveSources(c) = {conn[c].source}

(***************************************************************************)
(* Draining: two sessions of one bot, one of them sending commands, while  *)
(* the stats ticker runs and main is told to shut down.                    *)
(***************************************************************************)
MaxDrainCmds == 3
MaxStats == 1

CanSendDrain(s) == nCmds < MaxDrainCmds /\ client[s].identified

\* the Stats messages enqueued to s
StatsOf(s) == Select(sendCh[s], {"Stats"})

DrainCommand(s) ==
  \/ CanSendDrain(s) /\ handleVoiceUpdate(s, "g1", "c1")
  \/ CanSendDrain(s) /\ handlePlay(s, "g1", UrlOk, 0, 0)
  \/ CanSendDrain(s) /\ handleDisconnect(s, "g1")
  \/ CanSendDrain(s) /\ \E e \in Elapsed : handlePlayerMigrate(s, "g1", e)

TickerSteps ==
  \/ Len(StatsOf("s1")) < MaxStats /\ sendStats_GetStats
  \/ sendStats

MainSteps ==
  \/ Drain
  \/ Drain_broadcast
  \/ main_poll
  \/ main_deadline
  \/ main_closeManager
  \/ main_shutdown

NextDrain ==
  \/ HandleWebSocket("s1")
  \/ client["s1"].identified /\ HandleWebSocket("s2")
  \/ \E s \in Sessions : ~client[s].identified /\ handleIdentify(s, 1)
  \/ DrainCommand("s1")
  \/ VoiceSteps("s1")
  \/ PlaySteps
  \/ \E i \in DOMAIN closers : Disconnect_close(i)
  \/ TickerSteps
  \/ MainSteps

SpecDrain == Init /\ [][NextDrain]_vars

\* the (session, guild) pairs that have a Player record
Players == {sg \in Sessions \X Guilds : getPlayer(sg[1], sg[2]) # 0}

\* C11: while the draining flag is set no command creates a Player record:
\* the set of (session, guild) players can only shrink
C11_NoNewPlayerWhileDraining ==
  [][draining => Players' \subseteq Players]_vars

\* the NodeDraining messages enqueued to s
NodeDrainings(s) == Select(sendCh[s], {"NodeDraining"})

\* a step enqueues message m to session s
Enqueues(s, m) == sendCh'[s] = Append(sendCh[s], m)

\* C12: the draining flag, once set, stays set; Drain enqueues one
\* NodeDraining{shutdown, 30000} to every session registered when it
\* broadcasts, and to no other; every Stats message enqueued once Drain has
\* set the flag reports draining = true
C12_DrainFlagAndBroadcast ==
  [][/\ draining => draining'
     /\ (main.pc = "serving" /\ main'.pc # "serving") => draining'
     /\ (main.pc = "broadcast" /\ main'.pc = "loop") =>
          \A s \in Sessions :
            IF s \in clients
            THEN Enqueues(s, MsgNodeDraining("shutdown", 30000))
            ELSE sendCh'[s] = sendCh[s]
     /\ \A s \in Sessions : Len(NodeDrainings(s)') <= 1
     /\ \A s \in Sessions :
          (draining /\ Len(StatsOf(s)') > Len(StatsOf(s))) =>
             StatsOf(s)'[Len(StatsOf(s)')].state = "draining"]_vars

\* the players that were migrated: their session was sent MigrateReady for
\* the guild after the node began to drain
MigratedPlayers ==
  {sg \in Sessions \X Guilds :
     \E k \in DOMAIN sendCh[sg[1]] :
       /\ sendCh[sg[1]][k].op = "MigrateReady"
       /\ sendCh[sg[1]][k].guild = sg[2]
       /\ \E j \in 1..(k - 1) : sendCh[sg[1]][j].op = "NodeDraining"}

\* C13: once every player of a draining node has been migrated and nothing
\* is in progress, the node has removed those players, PlayerCount() is 0
\* and the wait of main did not run to the deadline
C13_MigratedPlayersAreRemoved ==
  (draining /\ Quiescent /\ stats = NoStats
     /\ MigratedPlayers # {} /\ Players \subseteq MigratedPlayers) =>
       /\ \A sg \in MigratedPlayers : getPlayer(sg[1], sg[2]) = 0
       /\ PlayerCount = 0
       /\ ~main.timedOut

(***************************************************************************)
(* Shutdown: one session connects a guild, disconnects it or closes, the   *)
(* voice sockets close, and main is told to shut down.  The deadline of    *)
(* the drain context passes sooner or later: main_deadline is fair.        *)
(***************************************************************************)
MaxShutdownCmds == 3

CanSendShutdown(s) == nCmds < MaxShutdownCmds /\ client[s].identified

NextShutdown ==
  \/ HandleWebSocket("s1")
  \/ ~client["s1"].identified /\ handleIdentify("s1", 1)
  \/ CanSendShutdown("s1") /\ handleVoiceUpdate("s1", "g1", "c1")
  \/ CanSendShutdown("s1") /\ handleDisconnect("s1", "g1")
  \/ close("s1")
  \/ VoiceSteps("s1")
  \/ SocketSteps
  \/ DisconnectSteps
  \/ MainSteps

SpecShutdown == Init /\ [][NextShutdown]_vars /\ WF_vars(main_deadline)

\* main is in its wait loop
InDrainLoop == main.pc = "loop"

\* main has left the wait loop
AfterDrainLoop == main.pc \in {"shutdown", "listeners", "stopped"}

MaxIdentifies == 3

NextRegistry ==
  \/ \E s \in Sessions : HandleWebSocket(s)
  \/ \E s \in Sessions, bot \in Bots : nCmds < MaxIdentifies /\ handleIdentify(s, bot)
  \/ \E s \in Sessions : close(s)

SpecRegistry == Init /\ [][NextRegistry]_vars

\* how often s occurs in the slice clientsByClientId[bot]
Occurrences(s, bot) == Count(SliceElems(clientsByClientId[bot]), s)

\* C15: a session is in Server.clients if and only if it occurs in
\* clientsByClientId; it occurs there once, under its current bot id; a
\* closed session is in neither
C15_RegistriesAgree ==
  \A s \in Sessions :
    /\ s \in clients <=> \E bot \in BotIds : Occurrences(s, bot) > 0
    /\ s \in clients =>
         \A bot \in BotIds :
           Occurrences(s, bot) = IF bot = client[s].clientId THEN 1 ELSE 0
    /\ client[s].closed =>
         /\ s \notin clients
         /\ \A bot \in BotIds : Occurrences(s, bot) = 0

(***************************************************************************)
(* The controller: LinkDaveClient, Player and Node of the client library.  *)
(* A call is followed through the calls it makes on a record of the        *)
(* controller's state; threw says that an exception is propagating, which  *)
(* ends every caller up to the one that catches it, with the assignments   *)
(* made so far kept.                                                       *)
(***************************************************************************)
linkdaveVars == <<serverVars, client, sendCh, dropped, player, handler, voiceVars,
                  taskVars, crashed, nCmds>>

\* the controller when a call starts: nothing written or emitted by it yet
Controller == [nodes |-> nodes, players |-> players, playerNodes |-> playerNodes,
               commands |-> <<>>, emitted |-> <<>>, remote |-> remote,
               threw |-> FALSE]

Throw(st) == [st EXCEPT !.threw = TRUE]

\* { op, d } as Node.#send writes it, with the node whose socket carries it
Cmd(op, n, g, channel, session, event, url, startTime, volume) ==
  [op |-> op, node |-> n, guild_id |-> g, channel_id |-> channel, session_id |-> session,
   event |-> event, url |-> url, start_time |-> startTime, volume |-> volume]
CmdVoiceUpdate(n, g, v)   == Cmd("VoiceUpdate", n, g, v.channelId, v.sessionId, v.event, Null, 0, 0)
CmdPlay(n, g, url, startTime, volume) == Cmd("Play", n, g, Null, Null, NoEvent, url, startTime, volume)
CmdDisconnect(n, g)       == Cmd("Disconnect", n, g, Null, Null, NoEvent, Null, 0, 0)
CmdPlayerMigrate(n, g)    == Cmd("PlayerMigrate", n, g, Null, Null, NoEvent, Null, 0, 0)

\* What the node does with a command of the session, in the order of the
\* socket: handleVoiceUpdate creates the session's player, handleDisconnect
\* removes it, handlePlayerMigrate answers MigrateReady if the player exists.
Served(r, cmd) ==
  LET g == cmd.guild_id IN
  CASE cmd.op = "VoiceUpdate"   -> [r EXCEPT !.players = @ \cup {g}]
    [] cmd.op = "Disconnect"    -> [r EXCEPT !.players = @ \ {g}]
    [] cmd.op = "PlayerMigrate" -> IF g \in r.players
                                   THEN [r EXCEPT !.migrating[g] = @ + 1]
                                   ELSE r
    [] OTHER                    -> r

\* the node after its session closed: Client.close drops the players
NoRemote == [players |-> {}, migrating |-> [g \in GuildIds |-> 0]]

\* Node.#send: throws unless the socket is open
Node_send(st, cmd) ==
  IF ~st.nodes[cmd.node].open
  THEN Throw(st)
  ELSE [st EXCEPT !.commands = Append(@, cmd),
                  !.remote[cmd.node] = Served(@, cmd)]

Node_connected(st, n) == st.nodes[n].state = "connected"
Node_draining(st, n)  == st.nodes[n].state = "draining"

incrementPlayerCount(st, n) == [st EXCEPT !.nodes[n].playerCount = @ + 1]
decrementPlayerCount(st, n) ==
  IF st.nodes[n].playerCount > 0
  THEN [st EXCEPT !.nodes[n].playerCount = @ - 1]
  ELSE st

MaxPlayerCount  == 1              \* Node.#playerCount is not raised beyond it
MaxMigrating    == 1              \* unanswered PlayerMigrate per node and guild
MaxStatsPlayers == 1              \* the highest player count a Stats names

\* let lowestCount = Infinity: more than any playerCount
Infinity == MaxPlayerCount + MaxStatsPlayers + 1

\* the mutant of the loop: a later node with the same playerCount is preferred
RECURSIVE ScanNodesLastOnTies(_, _, _, _, _)
ScanNodesLastOnTies(st, excludeNode, i, bestNode, lowestCount) ==
  IF i > Len(NodeNames) THEN bestNode
  ELSE LET node == NodeNames[i]
       IN  IF node = excludeNode \/ ~Node_connected(st, node) \/ Node_draining(st, node)
           THEN ScanNodesLastOnTies(st, excludeNode, i + 1, bestNode, lowestCount)
           ELSE IF st.nodes[node].playerCount <= lowestCount
           THEN ScanNodesLastOnTies(st, excludeNode, i + 1, node, st.nodes[node].playerCount)
           ELSE ScanNodesLastOnTies(st, excludeNode, i + 1, bestNode, lowestCount)

LowestCountLastOnTies(st, excludeNode) ==
  ScanNodesLastOnTies(st, excludeNode, 1, NoNode, Infinity)

\* the loop of getBestNode and #findMigrationTarget over #nodes.values(), from
\* the i-th node on, in the order in which the nodes were added
RECURSIVE ScanNodes(_, _, _, _, _)
ScanNodes(st, excludeNode, i, bestNode, lowestCount) ==
  IF i > Len(NodeNames) THEN bestNode
  ELSE LET node == NodeNames[i]
       IN  IF node = excludeNode \/ ~Node_connected(st, node) \/ Node_draining(st, node)
           THEN ScanNodes(st, excludeNode, i + 1, bestNode, lowestCount)
           ELSE IF st.nodes[node].playerCount < lowestCount
           THEN ScanNodes(st, excludeNode, i + 1, node, st.nodes[node].playerCount)
           ELSE ScanNodes(st, excludeNode, i + 1, bestNode, lowestCount)

\* bestNode and lowestCount before the loop, bestNode after it
LowestCount(st, excludeNode) == ScanNodes(st, excludeNode, 1, NoNode, Infinity)

getBestNode(st) == LowestCount(st, NoNode)
findMigrationTarget(st, excludeNode) == LowestCount(st, excludeNode)

\* new Player(client, guildId, node)
NewLdPlayer(n) == [NoPlayer EXCEPT !.node = n, !.state = "idle", !.volume = 100]

LinkDaveClient_getPlayer(st, g) ==
  IF st.players[g] # NoPlayer THEN st
  ELSE LET node == getBestNode(st) IN
       IF node = NoNode THEN Throw(st)
       ELSE incrementPlayerCount(
              [st EXCEPT !.players[g] = NewLdPlayer(node), !.playerNodes[g] = node], node)

LinkDaveClient_removePlayer(st, g) ==
  IF st.players[g] = NoPlayer THEN st
  ELSE LET node == st.playerNodes[g]
           s1 == IF node # NoNode THEN decrementPlayerCount(st, node) ELSE st
       IN  [s1 EXCEPT !.players[g] = NoPlayer, !.playerNodes[g] = NoNode]

\* the revision of _updatePlayerNode that compares with the player's node,
\* which _onMigrateReady has already replaced
updatePlayerNodeByPlayer(st, g, oldNode, newNode) ==
  IF st.players[g].node # oldNode THEN st
  ELSE incrementPlayerCount(decrementPlayerCount(st, oldNode), newNode)

LinkDaveClient_updatePlayerNode(st, g, oldNode, newNode) ==
  IF st.playerNodes[g] # oldNode THEN st
  ELSE incrementPlayerCount(
         [decrementPlayerCount(st, oldNode) EXCEPT !.playerNodes[g] = newNode], newNode)

Player_disconnect(st, g) ==
  [st EXCEPT !.players[g].voiceChannelId = Null, !.players[g].state = "idle",
             !.players[g].position = 0, !.players[g].voiceState = NoVoice,
             !.players[g].pendingVoice = NoPending]

Player_destroy(st, g) ==
  LET s1 == Player_disconnect(st, g)
      s2 == Node_send(s1, CmdDisconnect(s1.players[g].node, g))
  IN  IF s2.threw THEN s2 ELSE LinkDaveClient_removePlayer(s2, g)

Player_moveNode(st, g, targetNode) ==
  LET p == st.players[g] IN
  IF targetNode = p.node THEN st
  ELSE IF ~Node_connected(st, targetNode) \/ Node_draining(st, targetNode) THEN Throw(st)
  ELSE LET s1 == [st EXCEPT !.players[g].migrationTarget = targetNode]
           s2 == Node_send(s1, CmdPlayerMigrate(p.node, g))
       IN  IF s2.threw THEN s2 ELSE [s2 EXCEPT !.players[g].migrationResolve = TRUE]

Player_connectToLinkDave(st, g, channelId, sessionId, event) ==
  LET v == [channelId |-> channelId, sessionId |-> sessionId, event |-> event] IN
  Node_send([st EXCEPT !.players[g].voiceChannelId = channelId, !.players[g].voiceState = v],
            CmdVoiceUpdate(st.players[g].node, g, v))

Player_tryConnectLinkDave(st, g) ==
  LET pending == st.players[g].pendingVoice IN
  IF pending.channelId = Null \/ pending.sessionId = Null \/ pending.serverEvent = NoEvent
  THEN st
  ELSE LET s1 == Player_connectToLinkDave(st, g, pending.channelId, pending.sessionId,
                                          pending.serverEvent)
       IN  IF s1.threw THEN s1 ELSE [s1 EXCEPT !.players[g].pendingVoice = NoPending]

Player_handleVoiceStateUpdate(st, g, channel_id, session_id) ==
  IF channel_id = Null
  THEN [st EXCEPT !.players[g].pendingVoice = NoPending]
  ELSE Player_tryConnectLinkDave(
         [st EXCEPT !.players[g].pendingVoice.channelId = channel_id,
                    !.players[g].pendingVoice.sessionId = session_id], g)

Player_handleVoiceServerUpdate(st, g, token, endpoint) ==
  LET known == st.players[g].pendingVoice.serverEvent.endpoint
      ep == IF endpoint # Null THEN endpoint ELSE known
  IN  IF ep = Null THEN Throw(st)
      ELSE Player_tryConnectLinkDave(
             [st EXCEPT !.players[g].pendingVoice.serverEvent =
                          [token |-> token, guild_id |-> g, endpoint |-> ep]], g)

Player_onMigrateReady(st, g, data) ==
  LET p == st.players[g]
      targetNode == p.migrationTarget
      oldNode == p.node
      s1 == LinkDaveClient_updatePlayerNode([st EXCEPT !.players[g].node = targetNode],
                                            g, oldNode, targetNode)
      s2 == IF p.voiceState # NoVoice
            THEN Node_send(s1, CmdVoiceUpdate(targetNode, g, p.voiceState))
            ELSE s1
      s3 == IF s2.threw THEN s2
            ELSE IF data.state = "playing" /\ data.url # Null
            THEN Node_send(s2, CmdPlay(targetNode, g, data.url, data.position, data.volume))
            ELSE s2
  IN  IF targetNode = NoNode \/ data.guild_id # g THEN st
      ELSE IF s3.threw THEN s3
      ELSE [s3 EXCEPT !.players[g].migrationTarget = NoNode,
                      !.players[g].migrationResolve = FALSE]

Emit(st, m) == [st EXCEPT !.emitted = Append(@, m)]

\* a manager that re-emits whatever a node sends
forwardPlayerEventUnfiltered(st, n, m) == Emit(st, m)

LinkDaveClient_forwardPlayerEvent(st, n, m) ==
  IF st.playerNodes[m.guild_id] # n THEN st ELSE Emit(st, m)

LinkDaveClient_handlePlayerUpdate(st, n, m) ==
  LET g == m.guild_id IN
  IF st.playerNodes[g] # n THEN st
  ELSE Emit(IF st.players[g] # NoPlayer
            THEN [st EXCEPT !.players[g].state = m.state, !.players[g].position = m.position,
                            !.players[g].volume = m.volume]
            ELSE st, m)

\* the loop of #handleNodeDraining over the entries of #playerNodes; the
\* players are independent of each other here, since neither destroy nor
\* moveNode changes what #findMigrationTarget reads of the other nodes
RECURSIVE DrainPlayers(_, _, _)
DrainPlayers(st, n, gs) ==
  IF gs = {} \/ st.threw THEN st
  ELSE LET g == CHOOSE x \in gs : TRUE
           targetNode == findMigrationTarget(st, n)
           moved == Player_moveNode(st, g, targetNode)
           s1 == IF st.playerNodes[g] # n \/ st.players[g] = NoPlayer THEN st
                 ELSE IF targetNode = NoNode THEN Player_destroy(st, g)
                 ELSE [moved EXCEPT !.threw = FALSE]
       IN  DrainPlayers(s1, n, gs \ {g})

LinkDaveClient_handleNodeDraining(st, n, m) == DrainPlayers(Emit(st, m), n, GuildIds)

LinkDaveClient_handleMigrateReady(st, n, m) ==
  LET s1 == Emit(st, m) IN
  IF s1.players[m.guild_id] = NoPlayer THEN s1
  ELSE Player_onMigrateReady(s1, m.guild_id, m)

GuildEvents == {"TrackStart", "TrackEnd", "TrackError", "VoiceConnect", "VoiceDisconnect"}

\* Node.#handleMessage with the listeners #setupNodeListeners installed
Node_handleMessage(st, n, m) ==
  CASE m.op = "PlayerUpdate" -> LinkDaveClient_handlePlayerUpdate(st, n, m)
    [] m.op \in GuildEvents  -> LinkDaveClient_forwardPlayerEvent(st, n, m)
    [] m.op = "Stats"        ->
         Emit([st EXCEPT !.nodes[n].playerCount = m.players,
                         !.nodes[n].state = IF m.draining THEN "draining" ELSE "connected"], m)
    [] m.op = "NodeDraining" ->
         LinkDaveClient_handleNodeDraining([st EXCEPT !.nodes[n].state = "draining"], n, m)
    [] m.op = "MigrateReady" -> LinkDaveClient_handleMigrateReady(st, n, m)
    [] OTHER                 -> st

\* the controller after a call, whether it returned or threw
Becomes(st, m) ==
  /\ nodes' = st.nodes
  /\ players' = st.players
  /\ playerNodes' = st.playerNodes
  /\ commands' = st.commands
  /\ emitted' = st.emitted
  /\ remote' = st.remote
  /\ lastMsg' = m
  /\ UNCHANGED <<calls, linkdaveVars>>

(***************************************************************************)
(* Controller steps: calls of the library's user, gateway packets passed   *)
(* to handleRaw, and the socket events of every node.                      *)
(***************************************************************************)

NodeMsg(op, n, g, state, url, position, volume, count, drain) ==
  [op |-> op, node |-> n, guild_id |-> g, state |-> state, url |-> url,
   position |-> position, volume |-> volume, players |-> count, draining |-> drain]

\* the messages a node's socket may deliver
StatsMsgs(n) == {NodeMsg("Stats", n, Null, "", Null, 0, 0, k, d) :
                   k \in 0..MaxStatsPlayers, d \in BOOLEAN}
DrainingMsg(n) == NodeMsg("NodeDraining", n, Null, "", Null, 0, 0, 0, FALSE)
MigrateReadyMsgs(n) == {NodeMsg("MigrateReady", n, g, st, url, 7, 50, 0, FALSE) :
                          g \in GuildIds, st \in {"idle", "playing"}, url \in {Null, "u1"}}
EventMsgs(n) == {NodeMsg(op, n, g, "", Null, 0, 0, 0, FALSE) : op \in GuildEvents, g \in GuildIds}
PlayerUpdateMsgs(n) == {NodeMsg("PlayerUpdate", n, g, st, Null, 7, 50, 0, FALSE) :
                          g \in GuildIds, st \in {"playing", "paused"}}
CloseMsg(n) == NodeMsg("Close", n, Null, "", Null, 0, 0, 0, FALSE)

\* the guards that keep the counters within the bounds
CanCount(n) == n # NoNode => nodes[n].playerCount < MaxPlayerCount
CanMigrate == \A n \in NodeSet, g \in GuildIds : remote[n].migrating[g] < MaxMigrating

(***************************************************************************)
(* The socket of a node and its reconnect timer.                           *)
(***************************************************************************)
ReconnectDelay == 5000            \* options.reconnectDelay ?? 5_000
MaxCloses  == 3                   \* connect is not called after so many closes without an open
MaxClosing == 1                   \* sockets whose close event is still to come

RECURSIVE Pow2(_)
Pow2(k) == IF k = 0 THEN 1 ELSE 2 * Pow2(k - 1)

\* #ws is a socket that is connecting or open
HasLiveSocket(st, n) == st.nodes[n].open \/ st.nodes[n].connecting

\* #ws.close() and the socket forgotten: its close event comes later, the
\* node's session on the server ends
CloseSocket(st, n) ==
  IF HasLiveSocket(st, n)
  THEN [st EXCEPT !.nodes[n].closing = @ + 1,
                  !.nodes[n].open = FALSE,
                  !.nodes[n].connecting = FALSE,
                  !.remote[n] = IF st.nodes[n].open THEN NoRemote ELSE @]
  ELSE st

\* Node.#stopReconnect
Node_stopReconnect(st, n) ==
  [st EXCEPT !.nodes[n].timers = IF st.nodes[n].reconnectTimeout # 0 THEN @ - 1 ELSE @,
             !.nodes[n].reconnectTimeout = 0,
             !.nodes[n].reconnectAttempts = 0]

\* the mutant of Node.#scheduleReconnect: a new timer although one is pending
scheduleReconnectAgain(st, n) ==
  IF ~st.nodes[n].clientId
  THEN st
  ELSE [st EXCEPT !.nodes[n].reconnectTimeout =
                     ReconnectDelay * Pow2(st.nodes[n].reconnectAttempts),
                  !.nodes[n].reconnectAttempts = @ + 1,
                  !.nodes[n].timers = @ + 1]

\* Node.#scheduleReconnect
Node_scheduleReconnect(st, n) ==
  IF st.nodes[n].reconnectTimeout # 0 \/ ~st.nodes[n].clientId
  THEN st
  ELSE [st EXCEPT !.nodes[n].reconnectTimeout =
                     ReconnectDelay * Pow2(st.nodes[n].reconnectAttempts),
                  !.nodes[n].reconnectAttempts = @ + 1,
                  !.nodes[n].timers = @ + 1]

\* Node.#onClose: the state is Disconnected before the draining getter is
\* read; the manager re-emits close
Node_close(st, n) ==
  LET closed == Emit([st EXCEPT !.nodes[n].state = "disconnected",
                                !.nodes[n].closes = IF st.nodes[n].autoReconnect
                                                    THEN @ + 1 ELSE @],
                     CloseMsg(n))
  IN  IF /\ closed.nodes[n].autoReconnect
         /\ ~Node_draining(closed, n)
         /\ closed.nodes[n].reconnectAttempts < closed.nodes[n].maxReconnectAttempts
      THEN Node_scheduleReconnect(closed, n)
      ELSE closed

\* Node.connect up to the new WebSocket, which is not yet open
Node_connectTo(st, n) ==
  [CloseSocket(st, n) EXCEPT !.nodes[n].clientId = TRUE,
                             !.nodes[n].state = "connecting",
                             !.nodes[n].connecting = TRUE]

\* Node.disconnect
Node_disconnect(st, n) ==
  [CloseSocket(Node_stopReconnect(st, n), n) EXCEPT !.nodes[n].state = "disconnected",
                                                    !.nodes[n].closes = 0]

\* the user connects a node that is disconnected
Node_connect(n) ==
  /\ nodes[n].state = "disconnected"
  /\ nodes[n].closes < MaxCloses
  /\ Becomes(Node_connectTo(Controller, n), NoMsg)

\* onOpen; the Identify it sends names no guild and is not kept in commands
Node_onOpen(n) ==
  /\ nodes[n].connecting
  /\ Becomes([Controller EXCEPT !.nodes[n].state = "connected",
                                !.nodes[n].open = TRUE,
                                !.nodes[n].connecting = FALSE,
                                !.nodes[n].reconnectAttempts = 0,
                                !.nodes[n].closes = 0], NoMsg)

\* the close event of #ws, for a socket that was open or that failed to open
Node_onClose(n) ==
  /\ HasLiveSocket(Controller, n)
  /\ Becomes(Node_close([Controller EXCEPT !.nodes[n].open = FALSE,
                                           !.nodes[n].connecting = FALSE,
                                           !.remote[n] = NoRemote], n), NoMsg)

\* the close event of a socket that disconnect or connect closed: its
\* listener is the same #onClose
Node_onCloseOfClosed(n) ==
  /\ nodes[n].closing > 0
  /\ Becomes(Node_close([Controller EXCEPT !.nodes[n].closing = @ - 1], n), NoMsg)

\* the callback of the reconnect timer
Node_reconnectTimer(n) ==
  /\ nodes[n].timers > 0
  /\ nodes[n].closes < MaxCloses
  /\ HasLiveSocket(Controller, n) => nodes[n].closing < MaxClosing
  /\ LET fired == [Controller EXCEPT !.nodes[n].reconnectTimeout = 0,
                                     !.nodes[n].timers = @ - 1]
     IN  Becomes(IF fired.nodes[n].clientId THEN Node_connectTo(fired, n) ELSE fired, NoMsg)

\* the user calls node.disconnect()
Node_disconnectCall(n) ==
  /\ nodes[n].clientId
  /\ HasLiveSocket(Controller, n) => nodes[n].closing < MaxClosing
  /\ Becomes(Node_disconnect(Controller, n), NoMsg)

\* Node.#onMessage: an exception of a listener is caught and ignored
Node_onMessage(n, m) ==
  /\ nodes[n].open
  /\ m.op # "MigrateReady"
  /\ m.op = "NodeDraining" => CanMigrate
  /\ Becomes(Node_handleMessage(Controller, n, m), m)

\* a MigrateReady answers a PlayerMigrate the node has read
Node_onMigrateReady(n, m) ==
  /\ m.op = "MigrateReady"
  /\ nodes[n].open /\ CanCount(players[m.guild_id].migrationTarget)
  /\ remote[n].migrating[m.guild_id] > 0
  /\ Becomes(Node_handleMessage([Controller EXCEPT !.remote[n].migrating[m.guild_id] = @ - 1],
                                n, m), m)

getPlayer_call(g) ==
  /\ players[g] = NoPlayer /\ CanCount(getBestNode(Controller))
  /\ Becomes(LinkDaveClient_getPlayer(Controller, g), NoMsg)

destroy_call(g) ==
  /\ players[g] # NoPlayer
  /\ Becomes(Player_destroy(Controller, g), NoMsg)

disconnect_call(g) ==
  /\ players[g] # NoPlayer
  /\ Becomes(Player_disconnect(Controller, g), NoMsg)

moveNode_call(g, targetNode) ==
  /\ players[g] # NoPlayer /\ CanMigrate
  /\ Becomes(Player_moveNode(Controller, g, targetNode), NoMsg)

\* a gateway packet as handleRaw reads it; own: user_id is the client's id
Packet(t, g, own, channel_id, session_id, token, endpoint) ==
  [op |-> t, node |-> NoNode, guild_id |-> g, own |-> own, channel_id |-> channel_id,
   session_id |-> session_id, token |-> token, endpoint |-> endpoint]

handleRaw_VoiceStateUpdate(g, own, channel_id, session_id) ==
  /\ g \in GuildIds
  /\ Becomes(IF own /\ players[g] # NoPlayer
             THEN Player_handleVoiceStateUpdate(Controller, g, channel_id, session_id)
             ELSE Controller,
             Packet("VOICE_STATE_UPDATE", g, own, channel_id, session_id, Null, Null))

handleRaw_VoiceServerUpdate(g, token, endpoint) ==
  /\ g \in GuildIds
  /\ Becomes(IF players[g] # NoPlayer
             THEN Player_handleVoiceServerUpdate(Controller, g, token, endpoint)
             ELSE Controller,
             Packet("VOICE_SERVER_UPDATE", g, TRUE, Null, Null, token, endpoint))

SocketEvents ==
  \/ \E n \in NodeSet : Node_connect(n)
  \/ \E n \in NodeSet : Node_onOpen(n)
  \/ \E n \in NodeSet : Node_onClose(n)

\* Migrations: players are created, given voice credentials, moved by the
\* user or by a draining node, and destroyed, while sockets open and close.
NextMigration ==
  \/ SocketEvents
  \/ \E n \in NodeSet : \E m \in StatsMsgs(n) \cup {DrainingMsg(n)} : Node_onMessage(n, m)
  \/ \E n \in NodeSet : \E m \in MigrateReadyMsgs(n) : Node_onMigrateReady(n, m)
  \/ \E g \in GuildIds : getPlayer_call(g)
  \/ \E g \in GuildIds : destroy_call(g)
  \/ \E g \in GuildIds, n \in NodeSet : moveNode_call(g, n)
  \/ handleRaw_VoiceStateUpdate("g1", TRUE, "c1", "v1")
  \/ handleRaw_VoiceServerUpdate("g1", "t1", "e1")

SpecMigration == Init /\ [][NextMigration]_vars

\* The node of a player: the calls and the socket events that could remap
\* it.  g1's player is created, given voice credentials, moved by the user
\* or by a draining node, and destroyed, while both nodes connect, report
\* Stats, drain, close and reconnect.
MappingMsgs(n) == {NodeMsg("Stats", n, Null, "", Null, 0, 0, 0, FALSE),
                   NodeMsg("Stats", n, Null, "", Null, 0, 0, 1, TRUE),
                   DrainingMsg(n)}
MappingSnapshots(n) == {NodeMsg("MigrateReady", n, "g1", "playing", "u1", 7, 50, 0, FALSE),
                        NodeMsg("MigrateReady", n, "g1", "idle", Null, 7, 50, 0, FALSE)}

NextMapping ==
  \/ SocketEvents
  \/ \E n \in NodeSet : \E m \in MappingMsgs(n) : Node_onMessage(n, m)
  \/ \E n \in NodeSet : \E m \in MappingSnapshots(n) : Node_onMigrateReady(n, m)
  \/ getPlayer_call("g1")
  \/ destroy_call("g1")
  \/ \E n \in NodeSet : moveNode_call("g1", n)
  \/ handleRaw_VoiceStateUpdate("g1", TRUE, "c1", "v1")
  \/ handleRaw_VoiceServerUpdate("g1", "t1", "e1")

SpecMapping == Init /\ [][NextMapping]_vars

HasPlayer(g) == players[g] # NoPlayer
MappedToOneNode(g) == HasPlayer(g) => playerNodes[g] \in NodeSet /\ players[g].node = playerNodes[g]

\* C16: every guild that has a player is mapped to exactly one node, which is
\* the node of its Player, and while the player exists the mapping changes
\* only in the step that handles a MigrateReady for the guild, to the target
\* of the pending moveNode: not on NodeDraining, Stats, a socket close or a
\* reconnect.
C16_MappingChangesOnlyOnMigrateReady ==
  [][\A g \in GuildIds :
       /\ MappedToOneNode(g) /\ MappedToOneNode(g)'
       /\ (HasPlayer(g) /\ HasPlayer(g)' /\ playerNodes'[g] # playerNodes[g])
            => /\ lastMsg'.op = "MigrateReady" /\ lastMsg'.guild_id = g
               /\ playerNodes'[g] = players[g].migrationTarget]_vars

\* a migration has completed: the MigrateReady of the old node was handled
\* and the player is mapped to another node, where its playback was resumed
C16_Witness ==
  /\ lastMsg.op = "MigrateReady" /\ HasPlayer(lastMsg.guild_id)
  /\ playerNodes[lastMsg.guild_id] # lastMsg.node
  /\ players[lastMsg.guild_id].migrationTarget = NoNode
  /\ commands # <<>>

\* what a completed migration of player p, answered by snapshot m, writes:
\* the cached voice state, then the snapshot's track, on the target
Resumed(g, p, m) ==
  (IF p.voiceState # NoVoice
   THEN <<CmdVoiceUpdate(p.migrationTarget, g, p.voiceState)>> ELSE <<>>)
  \o (IF m.state = "playing" /\ m.url # Null
      THEN <<CmdPlay(p.migrationTarget, g, m.url, m.position, m.volume)>> ELSE <<>>)

\* C17: a PlayerMigrate for a player is written to the node the player is on;
\* the player's node changes only in the step that handles a MigrateReady
\* for its guild, to the target of moveNode; that step writes, on the
\* target, a VoiceUpdate exactly if a voice state is cached and then a
\* Play{url, start_time = position, volume} of the snapshot exactly if the
\* snapshot is playing with a url, and nothing else; a Disconnect is written
\* only to the node the player is on, never to a node it has left.
C17_MigrationProtocol ==
  [][\A g \in GuildIds :
       LET p == players[g]
           q == players'[g]
           m == lastMsg'
       IN  /\ \A i \in DOMAIN commands' :
                (commands'[i].guild_id = g /\ commands'[i].op \in {"PlayerMigrate", "Disconnect"})
                  => commands'[i].node = p.node
           /\ (HasPlayer(g) /\ HasPlayer(g)' /\ q.node # p.node)
                => /\ m.op = "MigrateReady" /\ m.guild_id = g
                   /\ q.node = p.migrationTarget
                   /\ commands' = Resumed(g, p, m)]_vars

\* Player counts: as in the mapping scenario, but a Stats message arrives
\* only while no migration is pending, so that the counts a migration
\* starts with are the counts its MigrateReady finds.
NoPendingMigration == \A g \in GuildIds : players[g].migrationTarget = NoNode

NextCounts ==
  \/ SocketEvents
  \/ \E n \in NodeSet : \E m \in StatsMsgs(n) : NoPendingMigration /\ Node_onMessage(n, m)
  \/ \E n \in NodeSet : \E m \in MappingSnapshots(n) : Node_onMigrateReady(n, m)
  \/ \E g \in GuildIds : getPlayer_call(g)
  \/ \E n \in NodeSet : moveNode_call("g1", n)
  \/ handleRaw_VoiceStateUpdate("g1", TRUE, "c1", "v1")
  \/ handleRaw_VoiceServerUpdate("g1", "t1", "e1")

SpecCounts == Init /\ [][NextCounts]_vars

\* C18: the step that handles the MigrateReady of a migration from node old
\* to node new, with no Stats message since the migration started, leaves
\* old.playerCount exactly 1 lower and new.playerCount exactly 1 higher.
C18_CountsFollowMigration ==
  [][\A g \in GuildIds :
       LET old == players[g].node
           new == players'[g].node
       IN  (HasPlayer(g) /\ HasPlayer(g)' /\ new # old)
             => /\ nodes'[old].playerCount = nodes[old].playerCount - 1
                /\ nodes'[new].playerCount = nodes[new].playerCount + 1]_vars

\* Events: both nodes send every guild-scoped event and PlayerUpdate for both
\* guilds, while g1's player is created, moved and destroyed; g2 has no
\* player.
NextEvents ==
  \/ SocketEvents
  \/ \E n \in NodeSet : \E m \in EventMsgs(n) \cup PlayerUpdateMsgs(n) : Node_onMessage(n, m)
  \/ \E n \in NodeSet : Node_onMigrateReady(n, NodeMsg("MigrateReady", n, "g1", "idle", Null, 7, 50, 0, FALSE))
  \/ getPlayer_call("g1")
  \/ destroy_call("g1")
  \/ \E n \in NodeSet : moveNode_call("g1", n)
  \/ handleRaw_VoiceStateUpdate("g1", TRUE, "c1", "v1")
  \/ handleRaw_VoiceServerUpdate("g1", "t1", "e1")

SpecEvents == Init /\ [][NextEvents]_vars

\* _updateState
Updated(p, m) == [p EXCEPT !.state = m.state, !.position = m.position, !.volume = m.volume]

\* C19: when a node delivers TrackStart, TrackEnd, TrackError, VoiceConnect,
\* VoiceDisconnect or PlayerUpdate for a guild, the manager emits the event
\* exactly if the guild has a player mapped to that node, a PlayerUpdate is
\* applied to the player exactly then, and otherwise nothing is emitted and
\* no player changes.
C19_EventsOfMappedNodeOnly ==
  [][lastMsg'.op \in GuildEvents \cup {"PlayerUpdate"} =>
       LET m == lastMsg'
           g == m.guild_id
           mapped == HasPlayer(g) /\ playerNodes[g] = m.node
       IN  /\ emitted' = IF mapped THEN <<m>> ELSE <<>>
           /\ players' = IF mapped /\ m.op = "PlayerUpdate"
                         THEN [players EXCEPT ![g] = Updated(@, m)]
                         ELSE players
           /\ UNCHANGED <<playerNodes, nodes>>]_vars

\* an event of the node a player has left: the node still holds the player
\* it was sent a VoiceUpdate for, the player is mapped to the other node,
\* and the event was dropped
C19_Witness ==
  /\ lastMsg.op \in GuildEvents \cup {"PlayerUpdate"}
  /\ HasPlayer(lastMsg.guild_id)
  /\ playerNodes[lastMsg.guild_id] # lastMsg.node
  /\ lastMsg.guild_id \in remote[lastMsg.node].players
  /\ emitted = <<>>

\* Voice credentials: the gateway packets for g1 arrive in any order and with
\* any of the values, for the bot and for other users, while the player's
\* node opens and closes and the user disconnects the player.
NextVoiceBuffer ==
  \/ SocketEvents
  \/ getPlayer_call("g1")
  \/ disconnect_call("g1")
  \/ \E own \in BOOLEAN, ch \in ChannelIds \cup {Null} :
       handleRaw_VoiceStateUpdate("g1", own, ch, "v1")
  \/ \E t \in Tokens, ep \in {Null, "e1"} : handleRaw_VoiceServerUpdate("g1", t, ep)

SpecVoiceBuffer == Init /\ [][NextVoiceBuffer]_vars

Complete(b) == b.channelId # Null /\ b.sessionId # Null /\ b.serverEvent # NoEvent

\* the step a packet asks for: buffer b becomes merged; if that completes it,
\* one VoiceUpdate with the buffered values goes to the player's node and the
\* buffer is emptied, otherwise nothing is written
Buffers(g, merged) ==
  IF Complete(merged)
  THEN /\ commands' = <<CmdVoiceUpdate(players[g].node, g,
                          [channelId |-> merged.channelId, sessionId |-> merged.sessionId,
                           event |-> merged.serverEvent])>>
       /\ players'[g].pendingVoice = NoPending
  ELSE /\ commands' = <<>>
       /\ players'[g].pendingVoice = merged

\* C20: a VOICE_STATE_UPDATE of the bot with a channel buffers channel_id and
\* session_id, a VOICE_SERVER_UPDATE with an endpoint buffers the server
\* event; the packet that makes all three present, whichever it is, writes
\* one VoiceUpdate with exactly the buffered values to the player's node and
\* leaves the buffer empty, any other packet writes nothing; a
\* VOICE_STATE_UPDATE with a null channel_id empties the buffer and writes
\* nothing.
C20_VoiceUpdateWhenBufferComplete ==
  [][LET m == lastMsg'
         g == m.guild_id
         b == players[g].pendingVoice
     IN  /\ (m.op = "VOICE_STATE_UPDATE" /\ m.own /\ HasPlayer(g))
              => IF m.channel_id = Null
                 THEN commands' = <<>> /\ players'[g].pendingVoice = NoPending
                 ELSE Buffers(g, [b EXCEPT !.channelId = m.channel_id,
                                           !.sessionId = m.session_id])
         /\ (m.op = "VOICE_SERVER_UPDATE" /\ m.endpoint # Null /\ HasPlayer(g))
              => Buffers(g, [b EXCEPT !.serverEvent = [token |-> m.token, guild_id |-> g,
                                                       endpoint |-> m.endpoint]])]_vars
(***************************************************************************)
(* Reconnecting: node n1 is added with either value of autoReconnect and   *)
(* a small maxReconnectAttempts; the user connects and disconnects it, its *)
(* socket opens, fails and closes, the node reports Stats and announces    *)
(* that it drains, and the reconnect timer fires.  n2 is never connected.  *)
(***************************************************************************)
MaxReconnectAttempts == 2         \* the highest options.maxReconnectAttempts

InitReconnect ==
  /\ ServerInit
  /\ ControllerMaps
  /\ \E a \in BOOLEAN, k \in 0..MaxReconnectAttempts :
       nodes = [n \in NodeSet |-> IF n = "n1" THEN NewNode(a, k) ELSE NewNode(FALSE, 0)]

ReconnectMsgs(n) == {NodeMsg("Stats", n, Null, "", Null, 0, 0, 0, FALSE),
                     NodeMsg("Stats", n, Null, "", Null, 0, 0, 0, TRUE),
                     DrainingMsg(n)}

NextReconnect ==
  \/ Node_connect("n1")
  \/ Node_onOpen("n1")
  \/ Node_onClose("n1")
  \/ Node_onCloseOfClosed("n1")
  \/ Node_reconnectTimer("n1")
  \/ Node_disconnectCall("n1")
  \/ \E m \in ReconnectMsgs("n1") : Node_onMessage("n1", m)

SpecReconnect == InitReconnect /\ [][NextReconnect]_vars

\* the step ran #onClose of node n
Closes(n) == emitted' = <<CloseMsg(n)>> /\ nodes'[n].closes = nodes[n].closes + 1
\* the step set a reconnect timer of node n
Schedules(n) == nodes[n].reconnectTimeout = 0 /\ nodes'[n].reconnectTimeout # 0

\* the step reset #reconnectAttempts of node n
Resets(n) == nodes[n].reconnectAttempts # 0 /\ nodes'[n].reconnectAttempts = 0

\* C21: when the socket of a node that is draining closes, the step sets no
\* reconnect timer, even with autoReconnect and attempts below the maximum.
C21_NoReconnectWhenDraining ==
  [][\A n \in NodeSet :
       Node_draining(Controller, n) /\ emitted' = <<CloseMsg(n)>> => ~Schedules(n)]_vars

\* C22 as stated: with autoReconnect, a reconnect scheduled after k
\* consecutive closes without an open (or disconnect()) in between has the delay
\* reconnectDelay * 2^k; the counter grows by one per scheduled reconnect and
\* is reset only by an open or by disconnect(); at most one timer is pending;
\* nothing is scheduled once the counter has reached maxReconnectAttempts.
C22_BackoffByCloses ==
  [][\A n \in NodeSet :
       /\ Schedules(n) =>
            /\ nodes[n].autoReconnect
            /\ nodes'[n].reconnectTimeout = ReconnectDelay * Pow2(nodes[n].closes)
            /\ nodes[n].reconnectAttempts < nodes[n].maxReconnectAttempts
       /\ nodes'[n].reconnectAttempts # nodes[n].reconnectAttempts =>
            \/ Schedules(n) /\ nodes'[n].reconnectAttempts = nodes[n].reconnectAttempts + 1
            \/ Resets(n) /\ (Node_onOpen(n) \/ Node_disconnectCall(n))
       /\ nodes'[n].timers <= 1]_vars

\* C22, amended: the delay is reconnectDelay * 2^a, a being the value of the
\* attempt counter, that is the number of reconnects scheduled since the last
\* open or disconnect(); a reconnect is scheduled only by a close, and a
\* close that finds a timer pending schedules none and leaves the counter.
C22_BackoffByAttempts ==
  [][\A n \in NodeSet :
       /\ Schedules(n) =>
            /\ nodes[n].autoReconnect
            /\ Closes(n)
            /\ nodes'[n].reconnectTimeout = ReconnectDelay * Pow2(nodes[n].reconnectAttempts)
            /\ nodes[n].reconnectAttempts < nodes[n].maxReconnectAttempts
       /\ Closes(n) /\ nodes[n].reconnectTimeout # 0 =>
            /\ nodes'[n].reconnectTimeout = nodes[n].reconnectTimeout
            /\ nodes'[n].reconnectAttempts = nodes[n].reconnectAttempts
       /\ nodes'[n].reconnectAttempts # nodes[n].reconnectAttempts =>
            \/ Schedules(n) /\ nodes'[n].reconnectAttempts = nodes[n].reconnectAttempts + 1
            \/ Resets(n) /\ (Node_onOpen(n) \/ Node_disconnectCall(n))
       /\ nodes'[n].timers <= 1
       /\ nodes'[n].timers = 1 <=> nodes'[n].reconnectTimeout # 0]_vars

\* a second reconnect in a row is scheduled with twice the delay
C22_Witness ==
  \E n \in NodeSet : /\ nodes[n].autoReconnect
                     /\ nodes[n].reconnectAttempts = 2
                     /\ nodes[n].reconnectTimeout = ReconnectDelay * 2
                     /\ nodes[n].closes > 2

(***************************************************************************)
(* Snapshots: a session connects a guild, plays, pauses, resumes, stops    *)
(* and asks for the migration snapshot, some time after the player was started or never     *)
(* started.                                                                *)
(***************************************************************************)
MaxSnapshotCmds == 4
SnapshotElapsed == {0, 2 * FrameMs}      \* time.Since(p.startedAt), in ms

CanSendSnapshot(s) == nCmds < MaxSnapshotCmds /\ client[s].identified

SnapshotCommand(s) ==
  \/ CanSendSnapshot(s) /\ handleVoiceUpdate(s, "g1", "c1")
  \/ CanSendSnapshot(s) /\ \E url \in {UrlOk, Url404} : handlePlay(s, "g1", url, FrameMs, 0)
  \/ CanSendSnapshot(s) /\ handlePause(s, "g1")
  \/ CanSendSnapshot(s) /\ handleResume(s, "g1")
  \/ CanSendSnapshot(s) /\ handleStop(s, "g1")
  \/ CanSendSnapshot(s) /\ \E e \in SnapshotElapsed : handlePlayerMigrate(s, "g1", e)

NextSnapshot ==
  \/ HandleWebSocket("s1")
  \/ ~client["s1"].identified /\ handleIdentify("s1", 1)
  \/ SnapshotCommand("s1")
  \/ VoiceSteps("s1")
  \/ ReplySteps("s1")
  \/ PlaySteps
  \/ FrameSteps
  \/ TrackEndSteps

SpecSnapshot == Init /\ [][NextSnapshot]_vars

\* C23: a PlayerMigrate for an existing player is answered with a MigrateReady
\* whose url, volume and state are the stored ones and whose position is the
\* stored position plus the time since the start when the state is playing,
\* and exactly the stored position when it is paused or idle.
C23_MigrateSnapshot ==
  [][\A s \in Sessions :
       getPlayer(s, "g1") # 0 /\ Len(sendCh'[s]) = Len(sendCh[s]) + 1
       /\ sendCh'[s][Len(sendCh'[s])].op = "MigrateReady"
       => LET p == player[getPlayer(s, "g1")]
              m == sendCh'[s][Len(sendCh'[s])]
          IN  /\ m.url = p.currentURL /\ m.volume = p.volume /\ m.state = p.state
              /\ \E e \in SnapshotElapsed :
                   m.position = p.position + (IF p.state = "playing" THEN e ELSE 0)]_vars

(***************************************************************************)
(* Failing plays: a session that has connected g1, and one that has not,   *)
(* play URLs that give a source and URLs that give none, one Play after    *)
(* the other.                                                              *)
(***************************************************************************)
MaxPlayCmds == 4

CanSendPlay(s) == nCmds < MaxPlayCmds /\ client[s].identified

PlayUrls == {UrlOk, Url404, UrlFtp, UrlNotMp3}

NextPlayFailure ==
  \/ HandleWebSocket("s1")
  \/ ~client["s1"].identified /\ handleIdentify("s1", 1)
  \/ CanSendPlay("s1") /\ playTasks = <<>>
       /\ \E url \in PlayUrls : handlePlay("s1", "g1", url, FrameMs, 0)
  \/ PlaySteps
  \/ FrameSteps
  \/ TrackEndSteps

SpecPlayFailure == (Init \/ Connected) /\ [][NextPlayFailure]_vars

\* the Play of task t cannot succeed: no voice connection for its guild, or a
\* URL with an unsupported scheme, an HTTP status other than 200 and 206, or
\* data the MP3 decoder rejects
MustFail(t) ==
  \/ getConnection(client[t.s].clientId, t.g) = 0
  \/ t.url.scheme \notin {"http", "https"}
  \/ t.url.status \notin {200, 206}
  \/ ~t.url.mp3

\* the step ends task i, which had not yet a source, with an error
FailsPlay(i) == playTasks[i].pc = "start" /\ playTasks' = RemoveAt(playTasks, i)

\* C24: a Play that fails gives its session exactly one TrackError for the
\* guild and no TrackStart or PlayerUpdate, leaves the Player's state, url and
\* position, installs and leaves open no new Source, leaves the installed
\* Source playing, and leaves the session reading its commands; and a Play
\* without a voice connection or with a bad URL does fail.
C24_FailedPlay ==
  [][/\ \A i \in DOMAIN playTasks :
          LET t == playTasks[i]
          IN  /\ FailsPlay(i) =>
                   /\ sendCh' = [sendCh EXCEPT ![t.s] =
                                   Append(@, MsgTrackError(t.g, t.url, "error"))]
                   /\ \A pid \in DOMAIN player :
                        /\ player'[pid].state = player[pid].state
                        /\ player'[pid].currentURL = player[pid].currentURL
                        /\ player'[pid].position = player[pid].position
                   /\ UNCHANGED <<source, conn, voiceConn, connections>>
                   /\ UNCHANGED <<handler, client, crashed>>
              /\ t.pc = "start" /\ MustFail(t) /\ Len(playTasks') = Len(playTasks)
                   => playTasks'[i] = t
     /\ Len(playTasks') = Len(playTasks) + 1 =>
          \A pid \in DOMAIN player :
             /\ player'[pid].state = player[pid].state
             /\ player'[pid].currentURL = player[pid].currentURL
             /\ player'[pid].position = player[pid].position]_vars

\* a Play has failed while the source of an earlier Play is installed and open
\* and its player is playing
C24_Witness ==
  /\ \E k \in DOMAIN sendCh["s1"] : sendCh["s1"][k].op = "TrackError"
  /\ playTasks = <<>>
  /\ \E c \in DOMAIN conn : /\ conn[c].source # 0
                            /\ ~source[conn[c].source].closed
                            /\ ~conn[c].paused
  /\ \E pid \in DOMAIN player : player[pid].state = "playing"
  /\ \E k \in DOMAIN sendCh["s1"] :
       /\ sendCh["s1"][k].op = "TrackError"
       /\ \E j \in 1..(k - 1) : sendCh["s1"][j].op = "TrackStart"

(***************************************************************************)
(* Commands without a voice connection: a session that never sent          *)
(* VoiceUpdate gets a Player by a Play, which fails, and sends Pause,      *)
(* Resume, Stop, Seek and Volume for the guild, before and after the Play. *)
(***************************************************************************)
MaxNotFoundCmds == 5

CanSendNotFound(s) == nCmds < MaxNotFoundCmds /\ client[s].identified

\* s handles one of the five commands for guild g
NotFoundCommand(s, g) ==
  \/ handlePause(s, g)
  \/ handleResume(s, g)
  \/ handleStop(s, g)
  \/ \E pos \in {FrameMs} : handleSeek(s, g, pos)
  \/ \E v \in {30, 75} : handleVolume(s, g, v)

NextNotFound ==
  \/ HandleWebSocket("s1")
  \/ ~client["s1"].identified /\ handleIdentify("s1", 1)
  \/ CanSendNotFound("s1") /\ handlePlay("s1", "g1", Url404, 0, 0)
  \/ \E i \in DOMAIN playTasks : playTask_create(i)
  \/ CanSendNotFound("s1") /\ handlePause("s1", "g1")
  \/ CanSendNotFound("s1") /\ handleResume("s1", "g1")
  \/ CanSendNotFound("s1") /\ handleStop("s1", "g1")
  \/ CanSendNotFound("s1") /\ handleSeek("s1", "g1", FrameMs)
  \/ CanSendNotFound("s1") /\ \E v \in {30, 75} : handleVolume("s1", "g1", v)

SpecNotFound == Init /\ [][NextNotFound]_vars

\* C25: a Pause, Resume, Stop, Seek or Volume that names a guild whose voice
\* connection is missing enqueues no reply and leaves the session's Player,
\* whether or not the session holds a Player for the guild.
C25_NoReplyWithoutConnection ==
  [][\A s \in Sessions, g \in Guilds :
       getConnection(client[s].clientId, g) = 0 /\ NotFoundCommand(s, g)
       => UNCHANGED <<sendCh, player>>]_vars

(***************************************************************************)
(* Selection: both nodes connect, report player counts, drain and close,   *)
(* while players are created for two guilds and destroyed.  No player has  *)
(* voice credentials, so that a migration the draining starts is never     *)
(* answered.                                                               *)
(***************************************************************************)
SelectionMsgs(n) == {NodeMsg("Stats", n, Null, "", Null, 0, 0, 0, FALSE),
                     NodeMsg("Stats", n, Null, "", Null, 0, 0, 1, FALSE),
                     NodeMsg("Stats", n, Null, "", Null, 0, 0, 1, TRUE),
                     DrainingMsg(n)}

NextSelection ==
  \/ SocketEvents
  \/ \E n \in NodeSet : \E m \in SelectionMsgs(n) : Node_onMessage(n, m)
  \/ \E g \in GuildIds : getPlayer_call(g)
  \/ \E g \in GuildIds : destroy_call(g)

SpecSelection == Init /\ [][NextSelection]_vars

\* the registered nodes, by their place in the order of registration, that
\* are connected and not draining and are not excludeNode
Eligible(excludeNode) ==
  {i \in DOMAIN NodeNames : /\ NodeNames[i] # excludeNode
                            /\ nodes[NodeNames[i]].state = "connected"}

\* the first of the eligible nodes with the smallest playerCount, or none
Best(excludeNode) ==
  LET ok == Eligible(excludeNode)
      least == {i \in ok : \A j \in ok :
                   nodes[NodeNames[i]].playerCount <= nodes[NodeNames[j]].playerCount}
  IN  IF ok = {} THEN NoNode
      ELSE NodeNames[CHOOSE i \in least : \A j \in least : i <= j]

\* C26: getBestNode returns the first node, in registration order, with the
\* smallest playerCount among the connected, non-draining nodes, and none
\* exactly when there is no such node; #findMigrationTarget does the same with
\* the draining node excluded; a new player is put on the best node and a
\* player of a draining node is sent to the migration target.
C26_BestNode ==
  [][/\ getBestNode(Controller) = Best(NoNode)
     /\ \A n \in NodeSet : findMigrationTarget(Controller, n) = Best(n)
     /\ \A g \in GuildIds :
          /\ ~HasPlayer(g) /\ HasPlayer(g)' => players'[g].node = Best(NoNode)
          /\ lastMsg'.op = "NodeDraining" /\ HasPlayer(g)'
             /\ players'[g].migrationTarget # players[g].migrationTarget
             => players'[g].migrationTarget = Best(lastMsg'.node)]_vars

\* the first player was put on n1, the first of two idle nodes, and the
\* second on n2, which had fewer players by then; a third was sent from a
\* draining node to the other
C26_Witness ==
  /\ players["g1"].node = "n1" /\ players["g2"].node = "n2"
  /\ nodes["n1"].playerCount = 1 /\ nodes["n2"].playerCount = 1
  /\ nodes["n1"].state = "draining" /\ nodes["n2"].state = "connected"
  /\ players["g1"].migrationTarget = "n2"

(***************************************************************************)
(* One MP3Source under concurrent calls.  A call of ProvideOpusFrame locks *)
(* mu, reads the closed flag, reads and encodes one frame, and unlocks; a  *)
(* call of Close swaps the closed flag and, if it was clear, locks mu and  *)
(* closes the HTTP body.  The stream holds up to MaxStreamFrames frames,   *)
(* and a read or the encoder may fail at any frame.                        *)
(***************************************************************************)
MaxStreamFrames == 2
MaxCalls == 4

\* what a call on a source leaves alone
aroundSource == <<controllerVars, serverVars, client, sendCh, dropped, player, handler,
                  connections, mutex, conn, voiceConn, taskVars, crashed, nCmds>>

\* a call of `op` on source src: where it is and what it returns; afterClose:
\* some Close had returned when the call started; readBody, advanced: the call
\* has read from the body, has added to position
NewCall(op, src) ==
  [op |-> op, src |-> src, pc |-> "start", result |-> "",
   afterClose |-> source[src].closeReturned, readBody |-> FALSE, advanced |-> FALSE]

\* NewMP3Source for a stream of n frames
Source_new(n) ==
  /\ source = <<>>
  /\ source' = <<[NewMP3Source(UrlOk) EXCEPT !.frames = n]>>
  /\ UNCHANGED <<calls, aroundSource>>

\* a goroutine calls ProvideOpusFrame or Close
Source_call(op, src) ==
  /\ src \in DOMAIN source
  /\ Len(calls) < MaxCalls
  /\ calls' = Append(calls, NewCall(op, src))
  /\ UNCHANGED <<source, aroundSource>>

\* s.mu.Lock()
MP3Source_Lock(i, pc) ==
  /\ source[calls[i].src].mu = 0
  /\ source' = [source EXCEPT ![calls[i].src].mu = i]
  /\ calls' = [calls EXCEPT ![i].pc = pc]
  /\ UNCHANGED aroundSource

ProvideOpusFrame_lock(i) ==
  /\ calls[i].op = "ProvideOpusFrame" /\ calls[i].pc = "start"
  /\ MP3Source_Lock(i, "locked")

\* if s.closed.Load() { return nil, io.EOF }, with the deferred Unlock
ProvideOpusFrame_closed(i) ==
  LET src == calls[i].src
  IN /\ calls[i].op = "ProvideOpusFrame" /\ calls[i].pc = "locked"
     /\ IF source[src].closed
        THEN /\ calls' = [calls EXCEPT ![i].pc = "done", ![i].result = "EOF"]
             /\ source' = [source EXCEPT ![src].mu = 0]
        ELSE /\ calls' = [calls EXCEPT ![i].pc = "read"]
             /\ UNCHANGED source
     /\ UNCHANGED aroundSource

\* the mutant of the rest of ProvideOpusFrame: position advances although the
\* encoder failed
ProvideOpusFrame_readAddsOnError(i) ==
  LET src == calls[i].src
  IN /\ calls[i].op = "ProvideOpusFrame" /\ calls[i].pc = "read"
     /\ \E r \in {"frame", "EOF", "error"} :
          /\ r = "frame" => source[src].frames > 0
          /\ r = "EOF" => source[src].frames = 0
          /\ calls' = [calls EXCEPT ![i].pc = "done", ![i].result = r,
                                    ![i].readBody = TRUE, ![i].advanced = r # "EOF"]
          /\ source' = [source EXCEPT
                          ![src].mu = 0,
                          ![src].frames = IF r = "frame" THEN @ - 1 ELSE @,
                          ![src].position = IF r # "EOF" THEN @ + FrameMs ELSE @]
     /\ UNCHANGED aroundSource

\* the rest of ProvideOpusFrame: io.ReadFull gives a frame's PCM (whole, or
\* padded), nothing at all (EOF) or an error; Encode may fail; position.Add(20)
\* is reached with a frame only
ProvideOpusFrame_read(i) ==
  LET src == calls[i].src
  IN /\ calls[i].op = "ProvideOpusFrame" /\ calls[i].pc = "read"
     /\ \E r \in {"frame", "EOF", "error"} :
          /\ r = "frame" => source[src].frames > 0
          /\ r = "EOF" => source[src].frames = 0
          /\ calls' = [calls EXCEPT ![i].pc = "done", ![i].result = r,
                                    ![i].readBody = TRUE, ![i].advanced = (r = "frame")]
          /\ source' = [source EXCEPT
                          ![src].mu = 0,
                          ![src].frames = IF r = "frame" THEN @ - 1 ELSE @,
                          ![src].position = IF r = "frame" THEN @ + FrameMs ELSE @]
     /\ UNCHANGED aroundSource

\* the mutant of Close_swap: the flag is stored, its old value not looked at
Close_store(i) ==
  LET src == calls[i].src
  IN /\ calls[i].op = "Close" /\ calls[i].pc = "start"
     /\ calls' = [calls EXCEPT ![i].pc = "lock"]
     /\ source' = [source EXCEPT ![src].closed = TRUE]
     /\ UNCHANGED aroundSource

\* if s.closed.Swap(true) { return }
Close_swap(i) ==
  LET src == calls[i].src
  IN /\ calls[i].op = "Close" /\ calls[i].pc = "start"
     /\ IF source[src].closed
        THEN /\ calls' = [calls EXCEPT ![i].pc = "done"]
             /\ source' = [source EXCEPT ![src].closeReturned = TRUE]
        ELSE /\ calls' = [calls EXCEPT ![i].pc = "lock"]
             /\ source' = [source EXCEPT ![src].closed = TRUE]
     /\ UNCHANGED aroundSource

Close_lock(i) ==
  /\ calls[i].op = "Close" /\ calls[i].pc = "lock"
  /\ MP3Source_Lock(i, "close")

\* s.body.Close(), with the deferred Unlock
Close_body(i) ==
  LET src == calls[i].src
  IN /\ calls[i].op = "Close" /\ calls[i].pc = "close"
     /\ calls' = [calls EXCEPT ![i].pc = "done"]
     /\ source' = [source EXCEPT ![src].mu = 0, ![src].bodyCloses = @ + 1,
                                 ![src].closeReturned = TRUE]
     /\ UNCHANGED aroundSource

SourceSteps ==
  \/ \E i \in DOMAIN calls : ProvideOpusFrame_lock(i)
  \/ \E i \in DOMAIN calls : ProvideOpusFrame_closed(i)
  \/ \E i \in DOMAIN calls : ProvideOpusFrame_read(i)
  \/ \E i \in DOMAIN calls : Close_swap(i)
  \/ \E i \in DOMAIN calls : Close_lock(i)
  \/ \E i \in DOMAIN calls : Close_body(i)

NextSource ==
  \/ \E n \in 0..MaxStreamFrames : Source_new(n)
  \/ \E op \in {"ProvideOpusFrame", "Close"} : Source_call(op, 1)
  \/ SourceSteps

SpecSource == Init /\ [][NextSource]_vars

\* the calls of ProvideOpusFrame on src that have returned a frame
Frames(src) == {i \in DOMAIN calls : calls[i].src = src /\ calls[i].result = "frame"}

\* C27: the position of an MP3 source starts at 0, grows by exactly 20 with
\* every call of ProvideOpusFrame that returns a frame and is left alone by a
\* call that returns EOF or an error: it is 20 * N after N calls that
\* returned a frame, and never decreases.
C27_PositionCountsFrames ==
  [][/\ \A src \in DOMAIN source' :
          /\ source'[src].position = FrameMs * Cardinality(Frames(src)')
          /\ src \in DOMAIN source => source'[src].position >= source[src].position
          /\ src \notin DOMAIN source => source'[src].position = 0
     /\ \A i \in DOMAIN calls :
          calls[i].pc # "done" /\ calls'[i].pc = "done" /\ calls'[i].result # "frame"
          => source'[calls[i].src].position = source[calls[i].src].position]_vars

\* two calls have returned a frame, and one after them has returned EOF
C27_Witness ==
  /\ source # <<>>
  /\ source[1].position = 2 * FrameMs
  /\ \E i \in DOMAIN calls : calls[i].result = "EOF" /\ calls[i].readBody

\* the calls of `op` on src
CallsOf(op, src) == {i \in DOMAIN calls : calls[i].op = op /\ calls[i].src = src}

\* C28: however many calls of Close run, and however they interleave with
\* calls of ProvideOpusFrame, the HTTP body is closed exactly once, no call is
\* stuck for ever, and every call of ProvideOpusFrame that started after a
\* Close had returned yields EOF without reading the body or adding to
\* position.
C28_CloseIsIdempotentAndSafe ==
  /\ \A src \in DOMAIN source :
       /\ source[src].bodyCloses <= 1
       /\ source[src].closeReturned => source[src].closed
       /\ CallsOf("Close", src) # {} /\ (\A i \in CallsOf("Close", src) : calls[i].pc = "done")
          => source[src].bodyCloses = 1
       /\ \A i \in CallsOf("ProvideOpusFrame", src) :
            calls[i].afterClose =>
              /\ ~calls[i].readBody /\ ~calls[i].advanced
              /\ calls[i].pc = "done" => calls[i].result = "EOF"
  /\ (\E i \in DOMAIN calls : calls[i].pc # "done") => ENABLED SourceSteps

\* two calls of Close have returned, and a call of ProvideOpusFrame that
\* started after one of them has returned EOF, as has one that read a frame
\* before
C28_Witness ==
  /\ \E i, j \in DOMAIN calls : /\ i # j
                                /\ calls[i].op = "Close" /\ calls[i].pc = "done"
                                /\ calls[j].op = "Close" /\ calls[j].pc = "done"
  /\ \E i \in DOMAIN calls : /\ calls[i].op = "ProvideOpusFrame" /\ calls[i].afterClose
                             /\ calls[i].pc = "done"
  /\ \E i \in DOMAIN calls : calls[i].result = "frame"

(***************************************************************************)
(* The end of a stream under the calls on its Connection.  The audio       *)
(* sender calls the trackWrapper of the provider it found installed; the   *)
(* source returns a frame, EOF or an error; on EOF or an error             *)
(* provideOpusFrame calls handleTrackEnd, which compares the source with   *)
(* c.source under c.mutex.  Play, Stop, Pause, Resume and Close of the     *)
(* Connection may run between any two of these steps.                      *)
(***************************************************************************)
MaxPulls == 3

\* a call of trackWrapper.ProvideOpusFrame by the audio sender of socket k;
\* err: what the source returned; current: handleTrackEnd found the source
\* installed
NewPull(k) ==
  [op |-> "provideOpusFrame", k |-> k, cid |-> voiceConn[k].conn,
   src |-> voiceConn[k].provider, pc |-> "start", err |-> "", current |-> FALSE]

\* the audio sender of socket k is inside a call of its provider
Pulling(k) == \E i \in DOMAIN calls : calls[i].k = k /\ calls[i].pc # "done"

\* the audio sender calls the provider it finds installed
provideOpusFrame_call(k) ==
  /\ Pulls(k)
  /\ ~Pulling(k)
  /\ Len(calls) < MaxPulls
  /\ calls' = Append(calls, NewPull(k))
  /\ UNCHANGED <<source, aroundSource>>

\* source.ProvideOpusFrame() returns: a frame, io.EOF of a closed or finished
\* source, or a read or encode error
provideOpusFrame_return(i, err) ==
  LET src == calls[i].src
  IN /\ ~crashed
     /\ calls[i].op = "provideOpusFrame" /\ calls[i].pc = "start"
     /\ CASE err = "" ->
               /\ ~source[src].closed /\ source[src].frames > 0
               /\ source' = [source EXCEPT ![src].frames = @ - 1,
                                           ![src].position = @ + FrameMs]
               /\ calls' = [calls EXCEPT ![i].pc = "done"]
          [] err = "EOF" ->
               /\ source[src].closed \/ source[src].frames = 0
               /\ calls' = [calls EXCEPT ![i].pc = "returned", ![i].err = err]
               /\ UNCHANGED source
          [] OTHER ->
               /\ ~source[src].closed
               /\ calls' = [calls EXCEPT ![i].pc = "returned", ![i].err = err]
               /\ UNCHANGED source
     /\ UNCHANGED aroundSource

\* if err != nil { c.handleTrackEnd(source, err) }
provideOpusFrame_handleTrackEnd(i) ==
  LET c == calls[i].cid
      src == calls[i].src
  IN /\ ~crashed
     /\ calls[i].op = "provideOpusFrame" /\ calls[i].pc = "returned"
     /\ handleTrackEnd(c, src, IF calls[i].err = "EOF" THEN "finished" ELSE "error")
     /\ calls' = [calls EXCEPT ![i].pc = "done", ![i].current = (conn[c].source = src)]
     /\ UNCHANGED <<controllerVars, serverVars, client, sendCh, dropped, player, handler,
                    connections, mutex, voiceConn, source, playTasks, closers,
                    crashed, nCmds>>

NextTrackEnd ==
  \/ Factory_Create
  \/ \E sid \in 1..MaxSources : Connection_Play(1, sid)
  \/ Connection_Pause(1)
  \/ Connection_Resume(1)
  \/ Connection_Stop(1)
  \/ \E k \in DOMAIN voiceConn : provideOpusFrame_call(k)
  \/ \E i \in DOMAIN calls, err \in {"", "EOF", "error"} : provideOpusFrame_return(i, err)
  \/ \E i \in DOMAIN calls : provideOpusFrame_handleTrackEnd(i)

SpecTrackEnd == Connected /\ [][NextTrackEnd]_vars

\* the on_track_end invocations a step adds
NewTrackEnds == {i \in DOMAIN callbacks' \ DOMAIN callbacks : callbacks'[i].kind = "trackEnd"}

\* call i of the provider reaches the comparison of handleTrackEnd in this step
EndsStream(i) == calls[i].pc = "returned" /\ calls'[i].pc = "done"

\* C29: when the source of the frame provider has returned EOF or an error,
\* on_track_end is invoked for it, with reason finished for EOF and error
\* otherwise, if and only if it is still the current source of the connection
\* when handleTrackEnd looks; for a source that play or stop has detached the
\* end of the stream invokes nothing, and no other step invokes on_track_end
\* with reason finished or error.
C29_EndOfStream ==
  [][/\ \A i \in DOMAIN calls :
          EndsStream(i) =>
            IF conn[calls[i].cid].source = calls[i].src
            THEN /\ Cardinality(NewTrackEnds) = 1
                 /\ \A j \in NewTrackEnds :
                      /\ callbacks'[j].src = calls[i].src
                      /\ callbacks'[j].cid = calls[i].cid
                      /\ callbacks'[j].reason =
                           IF calls[i].err = "EOF" THEN "finished" ELSE "error"
            ELSE NewTrackEnds = {}
     /\ \A j \in NewTrackEnds :
          callbacks'[j].reason \in {"finished", "error"}
          => \E i \in DOMAIN calls : EndsStream(i)]_vars

\* one stream ended with an error after play had replaced its source, and
\* only on_track_end(replaced) was invoked for it; the stream of the source
\* that replaced it ended with EOF and on_track_end(finished) was invoked
C29_Witness ==
  \E i, j \in DOMAIN calls :
    /\ calls[i].pc = "done" /\ calls[i].err = "error" /\ ~calls[i].current
    /\ \A x \in TrackEnds(calls[i].src) : callbacks[x].reason = "replaced"
    /\ TrackEnds(calls[i].src) # {}
    /\ calls[j].pc = "done" /\ calls[j].err = "EOF" /\ calls[j].current
    /\ \E x \in TrackEnds(calls[j].src) : callbacks[x].reason = "finished"

(***************************************************************************)
(* The close handler of a connection and the map of the manager.           *)
(***************************************************************************)
\* Manager.onDisconnect runs for callback i in this step
RunsOnDisconnect(i) ==
  /\ callbacks[i].kind = "disconnect"
  /\ callbacks[i].pc = "start"
  /\ crashed' \/ callbacks'[i].pc # "start"

\* the connection of callback i is the entry of its (bot, guild)
IsEntry(i) == connections[connectionKey(callbacks[i].bot, callbacks[i].g)] = callbacks[i].cid

\* C30: when Manager.onDisconnect runs for a connection that is no longer the
\* map entry of its (bot, guild), because Disconnect removed it or because it
\* lost the double check of Connect and was closed, on_voice_disconnected is
\* not invoked, no player is removed and the map is left as it is.
C30_OnlyTheEntryDisconnects ==
  [][\A i \in DOMAIN callbacks :
       RunsOnDisconnect(i) /\ ~IsEntry(i) =>
         /\ callbacks'[i].pc # "voiceDisconnected"
         /\ connections' = connections
         /\ client' = client]_vars

(***************************************************************************)
(* Reconfiguration: the session of a connected guild, idle or playing,     *)
(* sends further VoiceUpdates, each of which opens a new socket and swaps  *)
(* it in, and may disconnect; the manager pauses and resumes; sockets are  *)
(* lost or finish closing.                                                 *)
(***************************************************************************)
MaxSwapCmds == 5

\* the node once session s1 has also sent Play(g1) and has been answered
\* TrackStart and PlayerUpdate
Playing ==
  /\ clients = {"s1"}
  /\ clientsByClientId = [b \in BotIds |->
                            IF b = 1 THEN SliceAppend(NilSlice, "s1") ELSE NilSlice]
  /\ draining = FALSE
  /\ main = Serving
  /\ ControllerInit
  /\ stats = NoStats
  /\ client = [s \in Sessions |->
                 IF s = "s1"
                 THEN [NewClient EXCEPT !.clientId = 1, !.identified = TRUE,
                                        !.players = [g \in Guilds |-> 1]]
                 ELSE NoClient]
  /\ sendCh = [s \in Sessions |->
                 IF s = "s1"
                 THEN <<MsgReady, MsgVoiceConnect("g1", "c1"), MsgTrackStart("g1", UrlOk),
                        MsgPlayerUpdate("g1", "playing", 0, DefaultVolume)>>
                 ELSE <<>>]
  /\ dropped = [s \in Sessions |-> 0]
  /\ player = <<SetPlayingState(SetChannelID(NewPlayer, "c1"), UrlOk, 0)>>
  /\ handler = [s \in Sessions |-> Idle]
  /\ connections = [k \in Keys |-> IF k = connectionKey(1, "g1") THEN 1 ELSE 0]
  /\ mutex = "free"
  /\ conn = <<[NewConnection(1, "g1") EXCEPT !.channelID = "c1", !.voiceConn = 1,
                                             !.source = 1]>>
  /\ voiceConn = <<[conn |-> 1, state |-> "open", provider |-> 1]>>
  /\ source = <<[NewMP3Source(UrlOk) EXCEPT !.conn = 1]>>
  /\ playTasks = <<>>
  /\ callbacks = <<>>
  /\ closers = <<>>
  /\ crashed = FALSE
  /\ nCmds = 3
  /\ calls = <<>>

CanSendSwap(s) == nCmds < MaxSwapCmds + Len(source) /\ client[s].identified

NextSwap ==
  \/ CanSendSwap("s1") /\ handleVoiceUpdate("s1", "g1", "c1")
  \/ CanSendSwap("s1") /\ handleDisconnect("s1", "g1")
  \/ VoiceSteps("s1")
  \/ Connection_Pause(1)
  \/ Connection_Resume(1)
  \/ SocketSteps
  \/ DisconnectSteps

SpecSwap == (Connected \/ Playing) /\ [][NextSwap]_vars

\* the on_disconnect invocations a step adds
NewDisconnects ==
  {i \in DOMAIN callbacks' \ DOMAIN callbacks : callbacks'[i].kind = "disconnect"}

\* the close handler of socket k runs in this step
RunsCloseHandler(k) == voiceConn[k].state # "closed" /\ voiceConn'[k].state = "closed"

FailsToOpen(s) ==
  handler[s].pc = "open" /\ handler'[s].pc = "reply" /\ handler'[s].err

\* the setupVoiceConn of session s swaps its socket in in this step
SwapsIn(s) ==
  handler[s].pc = "open" /\ handler'[s].pc \in {"check", "reply"} /\ ~handler'[s].err

\* handleVoiceUpdate of session s sends its answer in this step
Answers(s) == handler[s].pc = "reply" /\ handler'[s].pc = "idle"

\* what a step adds to the channel of session s
Sent(s) == SubSeq(sendCh'[s], Len(sendCh[s]) + 1, Len(sendCh'[s]))

\* C32: handle_voice_update closes the previous socket only in the step
\* that has opened the new one and made it current; when Open fails, or its
\* context expires, the previous socket is still current and as it was, the
\* source, the paused flag and the frame provider are untouched, the call
\* returns an error, and the session is sent TrackError and no VoiceConnect.
C32_FailedSetupKeepsSocket ==
  [][\A s \in Sessions :
       LET c == handler[s].cid
           old == conn[c].voiceConn
       IN /\ FailsToOpen(s) =>
               /\ conn'[c].voiceConn = old
               /\ old # 0 => voiceConn'[old] = voiceConn[old]
               /\ conn'[c].source = conn[c].source
               /\ conn'[c].paused = conn[c].paused
               /\ source' = source
          /\ SwapsIn(s) =>
               /\ conn'[c].voiceConn = handler[s].sock
               /\ voiceConn'[handler[s].sock].state = "open"
               /\ old # 0 /\ voiceConn[old].state = "open"
                  => voiceConn'[old].state = "closing"
          /\ handler[s].pc \in {"setup", "open"} /\ ~SwapsIn(s) /\ old # 0
             /\ handler'[s] # handler[s]
             => voiceConn'[old] = voiceConn[old]
          /\ Answers(s) /\ handler[s].err =>
               /\ Len(Sent(s)) = 1
               /\ Sent(s)[1].op = "TrackError"
               /\ Sent(s)[1].guild = handler[s].g]_vars

\* Open failed for a VoiceUpdate of a paused, playing connection: the first
\* socket is still current and open, the source installed and paused, and
\* the last message of the session is TrackError
C32_Witness ==
  /\ Len(voiceConn) = 2 /\ voiceConn[2].state = "failed"
  /\ conn[1].voiceConn = 1 /\ voiceConn[1].state = "open"
  /\ conn[1].source = 1 /\ conn[1].paused /\ ~source[1].closed
  /\ handler["s1"].pc = "idle"
  /\ sendCh["s1"][Len(sendCh["s1"])].op = "TrackError"

\* Manager.Disconnect removes a connection in this step
Disconnects == Len(closers') > Len(closers)

\* callback i, of a connection that the goroutine of Manager.Disconnect has
\* closed, takes a step
AfterDisconnect(i) ==
  /\ callbacks[i].kind = "disconnect"
  /\ conn[callbacks[i].cid].closed
  /\ callbacks'[i] # callbacks[i]

\* C33: a Disconnect command removes the player of the session and the
\* connection of the (bot, guild) and sends exactly one VoiceDisconnect, with
\* reason "requested"; the close of the connection in the background sends
\* no VoiceDisconnect("connection_lost") to any session and removes no
\* player and no connection.
C33_OneRequestedDisconnect ==
  [][/\ Disconnects =>
          /\ Sent("s1") = <<MsgVoiceDisconnect("g1", "requested")>>
          /\ getPlayer("s1", "g1")' = 0
          /\ getConnection(1, "g1")' = 0
     /\ \A i \in DOMAIN callbacks :
          AfterDisconnect(i) =>
            /\ \A s \in Sessions : Sent(s) = <<>>
            /\ client' = client
            /\ connections' = connections]_vars

\* C34: every Lock of the connection map of the manager is followed by its
\* release: between the critical sections of Connect, Play, Disconnect,
\* Close and onDisconnect the lock is free, so that none of them waits for
\* it for ever, and no unlock of a lock that is not held ends the process.
C34_LockIsReleased == MutexFree /\ ~crashed

(***************************************************************************)
(* Voice credentials: the gateway sends the bot's voice state and voice    *)
(* server updates for the guild of a player, the server updates with or    *)
(* without an endpoint, while the sockets of the nodes open and close.     *)
(***************************************************************************)
Endpoints == {"e1", "e2"}

NextCredentials ==
  \/ SocketEvents
  \/ getPlayer_call("g1")
  \/ \E ch \in ChannelIds : handleRaw_VoiceStateUpdate("g1", TRUE, ch, "v1")
  \/ \E tk \in Tokens, e \in Endpoints \cup {Null} : handleRaw_VoiceServerUpdate("g1", tk, e)

SpecCredentials == Init /\ [][NextCredentials]_vars

\* the endpoint of the last server update the player of g got: the one of the
\* buffered credentials, or else of those forwarded to the node
PreviousEndpoint(g) ==
  IF players[g].pendingVoice.serverEvent.endpoint # Null
  THEN players[g].pendingVoice.serverEvent.endpoint
  ELSE players[g].voiceState.event.endpoint

\* C35: a VOICE_SERVER_UPDATE without endpoint is handled with the endpoint
\* of the previous server update of the player, whether those credentials
\* are still buffered or were forwarded to the node already; only a player
\* that never got an endpoint fails, and then nothing is sent or changed.
C35_NullEndpointReusesPrevious ==
  [][lastMsg'.op = "VOICE_SERVER_UPDATE" /\ lastMsg'.endpoint = Null
     /\ HasPlayer(lastMsg'.guild_id)
     => LET g == lastMsg'.guild_id
            ev == [token |-> lastMsg'.token, guild_id |-> g,
                   endpoint |-> PreviousEndpoint(g)]
        IN IF PreviousEndpoint(g) # Null
           THEN \/ players'[g].pendingVoice.serverEvent = ev
                \/ players'[g].voiceState.event = ev
           ELSE players' = players /\ commands' = <<>>]_vars

\* node n has no socket and no reconnect timer
AtRest(n) ==
  /\ nodes[n].state = "disconnected"
  /\ ~HasLiveSocket(Controller, n)
  /\ nodes[n].timers = 0
  /\ nodes[n].reconnectTimeout = 0

\* C36: disconnect() leaves the node disconnected with no reconnect timer
\* pending, and a node in that condition stays in it, whatever close events
\* arrive of sockets it has closed, until connect() is called.
C36_DisconnectIsFinal ==
  [][\A n \in NodeSet :
       /\ Node_disconnectCall(n) => AtRest(n)'
       /\ AtRest(n) /\ ~Node_connect(n) => AtRest(n)']_vars

(***************************************************************************)
(* moveNode: a player is created, may be given voice credentials, which    *)
(* makes its node create the player record, and is moved to another node;  *)
(* the old node answers the PlayerMigrate commands it serves.  A node      *)
(* reads and answers every command it is sent, and the socket delivers     *)
(* the answer, so the delivery of MigrateReady is weakly fair.             *)
(***************************************************************************)
MoveSnapshot(n) == NodeMsg("MigrateReady", n, "g1", "idle", Null, 7, 50, 0, FALSE)

NextMove ==
  \/ SocketEvents
  \/ getPlayer_call("g1")
  \/ \E n \in NodeSet : moveNode_call("g1", n)
  \/ handleRaw_VoiceStateUpdate("g1", TRUE, "c1", "v1")
  \/ handleRaw_VoiceServerUpdate("g1", "t1", "e1")
  \/ \E n \in NodeSet : Node_onMigrateReady(n, MoveSnapshot(n))

SpecMove ==
  /\ Init
  /\ [][NextMove]_vars
  /\ WF_vars(\E n \in NodeSet : Node_onMigrateReady(n, MoveSnapshot(n)))

\* a moveNode of g's player has just sent its PlayerMigrate
SentPlayerMigrate(g) ==
  /\ HasPlayer(g)
  /\ \E i \in DOMAIN commands :
       commands[i].op = "PlayerMigrate" /\ commands[i].guild_id = g

\* the migration of g's player is pending
Migrating(g) ==
  HasPlayer(g) /\ (players[g].migrationTarget # NoNode \/ players[g].migrationResolve)

\* C37: a moveNode that has sent its PlayerMigrate completes if the old node
\* stays connected: the node answers with MigrateReady, whether or not it
\* holds a player record for the guild, the migration target is cleared and
\* the promise is resolved.
C37_MoveNodeCompletes ==
  SentPlayerMigrate("g1") ~> (~Migrating("g1") \/ ~nodes[players["g1"].node].open)

\* C38: a connection that is paused stays paused through handle_voice_update:
\* while the paused flag is set the open, current socket of the connection
\* has no frame provider, so that no frame is pulled from the stored source
\* before resume().
C38_PausedStaysPaused ==
  \A c \in DOMAIN conn :
    conn[c].paused /\ conn[c].voiceConn # 0 /\ IsOpen(c)
    => voiceConn[conn[c].voiceConn].provider = 0

\* Server.OnTrackEnd runs in this step for callback i, the end of a stream
\* by itself
EndsByItself(i) ==
  /\ callbacks[i].pc = "end"
  /\ callbacks[i].reason \in {"finished", "error"}
  /\ callbacks'[i] # callbacks[i]

\* source B is installed in the connection of (bot, g) and the task that
\* played it has set the player to playing
InstalledAndPlaying(B, bot, g) ==
  /\ getConnection(bot, g) # 0
  /\ conn[getConnection(bot, g)].source = B
  /\ \A k \in DOMAIN playTasks :
       playTasks[k].src = B => playTasks[k].pc \notin {"play", "playing"}

\* C39: the end of source A with reason finished or error never sets a
\* player to idle once a Play has installed another source B in the
\* connection and has set the player to playing for it.
C39_NoIdleAfterNextPlay ==
  [][\A i \in DOMAIN callbacks :
       EndsByItself(i) =>
         \A B \in DOMAIN source \ {callbacks[i].src} :
           InstalledAndPlaying(B, callbacks[i].bot, callbacks[i].g) =>
             \A p \in DOMAIN player :
               player[p].state = "playing" => player'[p].state = "playing"]_vars

\* C40: destroy() of a player always removes it from the player map of the
\* controller and takes exactly one from the player count of its node, also
\* when the socket of the node is not open and the Disconnect cannot be sent.
C40_DestroyAlwaysRemoves ==
  [][\A g \in GuildIds :
       destroy_call(g) =>
         /\ ~HasPlayer(g)'
         /\ playerNodes'[g] = NoNode
         /\ nodes'[playerNodes[g]].playerCount = nodes[playerNodes[g]].playerCount - 1]_vars

====
